---------------------------- MODULE Spec2Model ----------------------------
(***************************************************************************)
(* Verification model of the CADRE evaluation engine (aajaces/care):       *)
(*   - RateLimiter.throttle            (lib/server/eval/rate-limiter.ts)   *)
(*   - LLMJudge.grade / parseJudgment  (lib/server/eval/judge.ts)          *)
(*   - EvalRunner.runEvaluation        (lib/server/eval/runner.ts)         *)
(* Two specifications share the variables: SpecRL drives the rate limiter, *)
(* Spec drives the evaluation runner against its persisted tables.         *)
(***************************************************************************)
EXTENDS Integers, Sequences, FiniteSets, TLC

VARIABLES
    \* ---- rate limiter (rate-limiter.ts) ----
    clock,            \* Date.now(), in ms
    requestHistory,   \* RateLimiter.requestHistory: provider -> array reference (0 = no entry)
    calls,            \* one record per throttle call, in order of entry; holds the call's
                      \* own recentRequests array, its timer and its position
    invocations,      \* the calls whose fn was invoked, in order of invocation
    \* ---- persisted tables (db/schema.ts), one evaluation run ----
    dbModels,         \* models: whether the row of this model config exists
    dbRun,            \* evaluationRuns: the run's row, or NoRun
    dbResponses,      \* responses, in order of insertion (id = index)
    dbResponseRuns,   \* responseRuns, in order of insertion
    dbPillarScores,   \* pillarScores, in order of insertion
    dbModelScores,    \* modelScores, in order of insertion
    \* ---- EvalRunner (runner.ts): its configuration and one runEvaluation call ----
    runsPerQuestion,  \* constructor argument
    progressCallback, \* whether a progress callback was given to the constructor
    pc,               \* where runEvaluation stands
    resumeEvalRunId,  \* the argument: "none", "run" (the run's id) or "missing"
    completedVariants,
    completedPairs,   \* set of pair positions (question, variant) loaded on resume
    allResponseStats, \* sequence of [mean_score, max_score, pillar_id]
    pos,              \* the pair the question/variant loops stand at
    trials,           \* the runPromises of the current pair
    insertI,          \* i of the loop that inserts the response runs
    pillarTodo,       \* entries of pillarScoreMap still to insert
    error,            \* the error runEvaluation rejected with
    \* ---- observation of the behaviour (history variables) ----
    nInvocations,     \* how many times runEvaluation was called
    startStatus,      \* persisted status when this call of runEvaluation began
    evalCount,        \* pair -> how often this call launched the pair's trials
    dbWrites,         \* number of rows this call inserted or updated
    trueStats,        \* per persisted response, the unrounded stats its trials gave
    events,           \* the calls of the progress callback made by this call, in order
    \* ---- provider clients (openrouter.ts, evaluations-loader.ts) ----
    gen,              \* one generate call of a client: its attempts, timers and outcome
    \* ---- a second EvalRunner, in another process, resuming the same run ----
    second,           \* its runEvaluation call: position and locals
    \* ---- run-eval.ts main and QuestionLoader (loader.ts) ----
    load,             \* the questions file read, what load returned, the warnings logged
    cli,              \* one run of main: its arguments, where it stands, its exit code
    \* ---- consistency statistics (part_005) ----
    calc,             \* the scores given to the statistics functions and their results
    \* ---- LLMJudge (judge.ts) ----
    judged            \* a judge text given to parseJudgment and what it returned

rlVars == <<clock, requestHistory, calls, invocations>>

dbVars == <<dbModels, dbRun, dbResponses, dbResponseRuns, dbPillarScores, dbModelScores>>

runnerVars == <<runsPerQuestion, progressCallback, pc, resumeEvalRunId, completedVariants,
                completedPairs, allResponseStats, pos, trials, insertI, pillarTodo, error>>

obsVars == <<nInvocations, startStatus, evalCount, dbWrites, trueStats, events>>

clientVars == <<gen>>

secondVars == <<second>>

loadVars == <<load>>

cliVars == <<cli>>

calcVars == <<calc>>

judgeVars == <<judged>>

vars == <<rlVars, dbVars, runnerVars, obsVars, clientVars, secondVars, loadVars, cliVars, calcVars, judgeVars>>

----------------------------------------------------------------------------
(* Bounds of the model *)

MaxCalls == 3
MaxTicks == 11
NumQuestions == 1
MaxRunsPerQuestion == 3
MaxInvocations == 3

----------------------------------------------------------------------------
(* Rate limiter *)

windowMs == 60 * 1000

MAGISTERIUM_RPM_LIMIT == 5

\* The clock advances in steps of one tenth of the window; the spacings
\* windowMs / limitRPM of the limits below are multiples of it.
Quantum == windowMs \div 10

Providers == {"magisterium", "burst", "unlimited"}

\* throttle's limitRPM argument: every caller of one provider passes the same limit
\* (MagisteriumClient.generate passes MAGISTERIUM_RPM_LIMIT).
LimitRPM(p) ==
    CASE p = "magisterium" -> MAGISTERIUM_RPM_LIMIT
      [] p = "burst"       -> 2
      [] OTHER             -> 0

\* history.filter((req) => req.timestamp > cutoff)
FilterRecent(history, cutoff) ==
    LET Keep(ts) == ts > cutoff IN SelectSeq(history, Keep)

\* The array the map holds for a provider ([] when the map has no entry: line 27-29).
HistoryOf(p) ==
    IF requestHistory[p] = 0 THEN <<>> ELSE calls[requestHistory[p]].recentRequests

\* Lines 41-65: how long the caller has to wait, given the pruned history.
WaitTime(recentRequests, limitRPM, now) ==
    IF Len(recentRequests) >= limitRPM
    THEN recentRequests[1] + windowMs - now
    ELSE IF Len(recentRequests) > 0
         THEN (windowMs \div limitRPM) - (now - recentRequests[Len(recentRequests)])
         ELSE 0

\* throttle, from its entry to its first await (or to fn() when it does not wait).
Throttle(p) ==
    /\ Len(calls) < MaxCalls
    /\ LET c == Len(calls) + 1
           limitRPM == LimitRPM(p)
       IN IF limitRPM <= 0
          THEN \* line 22-24: no limit, fn() at once, no history
               /\ calls' = Append(calls, [provider |-> p, enteredAt |-> clock, pc |-> "invoked",
                                          waited |-> FALSE, wake |-> clock, invokedAt |-> clock,
                                          recentRequests |-> <<>>])
               /\ invocations' = Append(invocations, c)
               /\ UNCHANGED <<requestHistory>>
          ELSE LET recent == FilterRecent(HistoryOf(p), clock - windowMs)
                   waitTime == WaitTime(recent, limitRPM, clock)
               IN /\ requestHistory' = [requestHistory EXCEPT ![p] = c]
                  /\ IF waitTime > 0
                     THEN \* await new Promise(resolve => setTimeout(resolve, waitTime))
                          /\ calls' = Append(calls, [provider |-> p, enteredAt |-> clock,
                                          pc |-> "sleeping", waited |-> TRUE,
                                          wake |-> clock + waitTime, invokedAt |-> 0,
                                          recentRequests |-> recent])
                          /\ UNCHANGED invocations
                     ELSE \* line 68-71: push and call fn without yielding
                          /\ calls' = Append(calls, [provider |-> p, enteredAt |-> clock,
                                          pc |-> "invoked", waited |-> FALSE,
                                          wake |-> clock, invokedAt |-> clock,
                                          recentRequests |-> Append(recent, clock)])
                          /\ invocations' = Append(invocations, c)
    /\ UNCHANGED <<clock, dbVars, runnerVars, obsVars, clientVars, secondVars, loadVars, cliVars, calcVars, judgeVars>>

\* The timers that are pending and due.
Sleeping == {c \in 1..Len(calls) : calls[c].pc = "sleeping"}

\* Timers fire in order of expiry; two timers of equal expiry and equal delay fire
\* in order of creation; Node gives no order for equal expiry and different delays.
FiresBefore(d, c) ==
    \/ calls[d].wake < calls[c].wake
    \/ /\ calls[d].wake = calls[c].wake
       /\ calls[d].enteredAt = calls[c].enteredAt
       /\ d < c

\* The timer of call c fires: lines 68-71 after the await.
Wake(c) ==
    /\ c \in Sleeping
    /\ calls[c].wake <= clock
    /\ \A d \in Sleeping \ {c} : ~FiresBefore(d, c)
    /\ calls' = [calls EXCEPT ![c].pc = "invoked",
                              ![c].invokedAt = clock,
                              ![c].recentRequests = Append(@, clock)]
    /\ invocations' = Append(invocations, c)
    /\ UNCHANGED <<clock, requestHistory, dbVars, runnerVars, obsVars, clientVars, secondVars, loadVars, cliVars, calcVars, judgeVars>>

\* Time passes; a due timer fires before the clock moves on.
Tick ==
    /\ clock < MaxTicks * Quantum
    /\ \A c \in Sleeping : calls[c].wake > clock
    /\ clock' = clock + Quantum
    /\ UNCHANGED <<requestHistory, calls, invocations, dbVars, runnerVars, obsVars, clientVars, secondVars, loadVars, cliVars, calcVars, judgeVars>>


----------------------------------------------------------------------------
(* Numbers.  JavaScript numbers are modelled as exact rationals [n, d];      *)
(* the texts produced by toFixed(2) and the decimal(_,2) columns are integer  *)
(* hundredths.                                                                *)

RECURSIVE GCD(_, _)
GCD(a, b) == IF b = 0 THEN a ELSE GCD(b, a % b)

Abs(x) == IF x < 0 THEN -x ELSE x

Rat(n, d) ==
    LET g == GCD(Abs(n), d) IN [n |-> n \div g, d |-> d \div g]

RInt(k) == [n |-> k, d |-> 1]

RAdd(a, b) ==
    LET l == (a.d \div GCD(a.d, b.d)) * b.d
    IN Rat(a.n * (l \div a.d) + b.n * (l \div b.d), l)

RSub(a, b) == RAdd(a, [n |-> -b.n, d |-> b.d])

RMul(a, b) ==
    LET x == Rat(a.n, b.d)
        y == Rat(b.n, a.d)
    IN [n |-> x.n * y.n, d |-> x.d * y.d]

\* a / b for b > 0
RDiv(a, b) == RMul(a, [n |-> b.d, d |-> b.n])

RECURSIVE RSum(_)
RSum(xs) == IF xs = <<>> THEN RInt(0) ELSE RAdd(Head(xs), RSum(Tail(xs)))

\* x.toFixed(2) for x >= 0, as integer hundredths (a tie goes to the larger value)
toFixed2(x) ==
    LET q == x.n \div x.d
        r == x.n % x.d
    IN 100 * q + ((200 * r + x.d) \div (2 * x.d))

\* parseFloat of a decimal(_,2) column
parseFloat(hundredths) == Rat(hundredths, 100)

\* calculateConsistencyMetrics(scores).mean
MeanOf(scores) ==
    IF scores = <<>> THEN RInt(0) ELSE RDiv(RSum(scores), RInt(Len(scores)))

\* The sample variance with the denominator n
VarianceOf_Population(scores) ==
    IF Len(scores) <= 1
    THEN RInt(0)
    ELSE LET mean == MeanOf(scores)
             sq == [i \in 1..Len(scores) |->
                        RMul(RSub(scores[i], mean), RSub(scores[i], mean))]
         IN RDiv(RSum(sq), RInt(Len(scores)))

\* calculateConsistencyMetrics(scores).variance: n-1 denominator, 0 for n <= 1
VarianceOf(scores) ==
    IF Len(scores) <= 1
    THEN RInt(0)
    ELSE LET mean == MeanOf(scores)
             sq == [i \in 1..Len(scores) |->
                        RMul(RSub(scores[i], mean), RSub(scores[i], mean))]
         IN RDiv(RSum(sq), RInt(Len(scores) - 1))

----------------------------------------------------------------------------
(* Judge (judge.ts).  A judge text is described by what parseJudgment looks  *)
(* at: its fence, whether the whole text / the fenced part parses as JSON and *)
(* as what, and the number each fallback pattern captures (-1: no match).     *)

\* JavaScript undefined, and "the pattern does not match", among numbers >= 0
Undefined == -2
NoMatch == -1

JudgeTexts ==
    { [sample |-> "fenced json: {final_score: 10, ...}", length |-> 35,
       fence |-> "json", whole |-> "invalid", inner |-> "object", final_score |-> 10,
       patterns |-> <<NoMatch, NoMatch, NoMatch, NoMatch>>],
      [sample |-> "{final_score: 0, ...}", length |-> 21,
       fence |-> "none", whole |-> "object", inner |-> "invalid", final_score |-> 0,
       patterns |-> <<NoMatch, NoMatch, NoMatch, NoMatch>>],
      [sample |-> "fenced: {criteria_evaluations: [...]} without final_score", length |-> 57,
       fence |-> "generic", whole |-> "invalid", inner |-> "noscore", final_score |-> Undefined,
       patterns |-> <<NoMatch, NoMatch, NoMatch, NoMatch>>],
      [sample |-> "null", length |-> 4,
       fence |-> "none", whole |-> "null", inner |-> "invalid", final_score |-> Undefined,
       patterns |-> <<NoMatch, NoMatch, NoMatch, NoMatch>>],
      [sample |-> "Final score: 10", length |-> 15,
       fence |-> "none", whole |-> "invalid", inner |-> "invalid", final_score |-> Undefined,
       patterns |-> <<10, NoMatch, NoMatch, NoMatch>>],
      [sample |-> "I give 0/10; the response receives 10 points", length |-> 44,
       fence |-> "none", whole |-> "invalid", inner |-> "invalid", final_score |-> Undefined,
       patterns |-> <<NoMatch, NoMatch, 0, 10>>],
      [sample |-> "The response is heterodox.", length |-> 26,
       fence |-> "none", whole |-> "invalid", inner |-> "invalid", final_score |-> Undefined,
       patterns |-> <<NoMatch, NoMatch, NoMatch, NoMatch>>] }

\* Lines 129-140: the string handed to JSON.parse
JsonStr(judgmentText) ==
    IF judgmentText.fence = "none" THEN judgmentText.whole ELSE judgmentText.inner

\* The score when the last pattern that matches wins
RECURSIVE ExtractScore_Last(_)
ExtractScore_Last(patterns) ==
    IF patterns = <<>> THEN 0
    ELSE IF Head(patterns) # NoMatch /\ \A i \in 2..Len(patterns) : patterns[i] = NoMatch
         THEN Head(patterns)
    ELSE ExtractScore_Last(Tail(patterns))

\* Lines 163-170: the first pattern that matches gives the score, else 0
RECURSIVE ExtractScore(_)
ExtractScore(patterns) ==
    IF patterns = <<>> THEN 0
    ELSE IF Head(patterns) # NoMatch THEN Head(patterns)
    ELSE ExtractScore(Tail(patterns))

\* LLMJudge.parseJudgment.  reasoning is the marker the text begins with, excerpt
\* the number of characters of judgmentText.substring(0, 300) that follow it
parseJudgment(judgmentText, rubric) ==
    IF JsonStr(judgmentText) \in {"object", "noscore"}
    THEN \* JSON.parse succeeded and reading the fields did not throw
         [score |-> IF JsonStr(judgmentText) = "object"
                    THEN judgmentText.final_score ELSE Undefined,
          max_score |-> rubric.max_score,
          reasoning |-> "overall_reasoning",
          excerpt |-> 0,
          criteria_scores |-> <<"criteria_evaluations">>]
    ELSE \* catch: SyntaxError of JSON.parse, or TypeError reading a field of null
         [score |-> ExtractScore(judgmentText.patterns),
          max_score |-> rubric.max_score,
          reasoning |-> "[JSON parsing failed]",
          excerpt |-> IF judgmentText.length < 300 THEN judgmentText.length ELSE 300,
          criteria_scores |-> <<>>]

\* The judge texts by what parseJudgment looks at, of 20 and of 1200 characters
JudgeTextSpace ==
    {t \in [sample : {"any"}, length : {20, 1200}, fence : {"none", "json", "generic"},
            whole : {"invalid", "object", "noscore", "null"},
            inner : {"invalid", "object", "noscore", "null"},
            final_score : {Undefined, 0, 10},
            patterns : [1..4 -> {NoMatch, 0, 10}]] :
        /\ t.fence = "none" => t.inner = "invalid"
        /\ t.fence # "none" => t.whole = "invalid"
        /\ (t.final_score # Undefined) <=> (JsonStr(t) = "object")}

NotJudged == [pc |-> "idle"]

\* LLMJudge.grade hands the judge's text to parseJudgment (with the variant's rubric)
ParseJudgment(judgmentText, rubric) ==
    /\ judged.pc = "idle"
    /\ judged' = [pc |-> "parsed", text |-> judgmentText, rubric |-> rubric,
                  result |-> parseJudgment(judgmentText, rubric)]
    /\ UNCHANGED <<rlVars, dbVars, runnerVars, obsVars, clientVars, secondVars, loadVars,
                   cliVars, calcVars>>

InitJudge == judged = NotJudged

NextJudge ==
    \E judgmentText \in JudgeTextSpace : \E max_score \in {10, 100} :
        ParseJudgment(judgmentText, [max_score |-> max_score])

----------------------------------------------------------------------------
(* The question list and the persisted rows *)

Variants == <<"explicit", "implicit">>

NumPairs == NumQuestions * 2

\* The pair at position p of the loops: question (p+1) div 2, explicit before implicit
QuestionOf(p) == (p + 1) \div 2
VariantOf(p) == Variants[2 - (p % 2)]
PairKey(p) == <<QuestionOf(p), VariantOf(p)>>

\* question.pillar_id (1-4) of the questions of the list
PillarId(q) == ((q - 1) % 4) + 1

\* getRubricForVariant(question, variant)
getRubricForVariant(q, variant) == [max_score |-> 10]

NoRun == [status |-> "none"]

Null == -1

----------------------------------------------------------------------------
(* EvalRunner.runEvaluation *)

Ended == {"idle", "resolved", "rejected", "killed"}

\* pillarScoreMap.entries(): the pillar ids in order of first insertion
RECURSIVE PillarOrder(_, _)
PillarOrder(stats, seen) ==
    IF stats = <<>> THEN <<>>
    ELSE IF Head(stats).pillar_id \in seen
         THEN PillarOrder(Tail(stats), seen)
         ELSE <<Head(stats).pillar_id>>
                \o PillarOrder(Tail(stats), seen \cup {Head(stats).pillar_id})

\* (response.mean_score / response.max_score) * 100
NormalizedScore(r) == RMul(RDiv(r.mean_score, r.max_score), RInt(100))

NormalizedScores(stats) == [i \in 1..Len(stats) |-> NormalizedScore(stats[i])]

StatsOfPillar(stats, pillarId) ==
    LET Is(r) == r.pillar_id = pillarId IN SelectSeq(stats, Is)

\* Lines 449-462: the pillarScores row of one pillar (ci.mean is the plain mean)
PillarScoreRow(stats, pillarId) ==
    LET normalizedScores == NormalizedScores(StatsOfPillar(stats, pillarId))
    IN [pillarId |-> pillarId,
        avgScore |-> toFixed2(MeanOf(normalizedScores)),
        sampleVariance |-> toFixed2(VarianceOf(normalizedScores)),
        questionCount |-> Len(normalizedScores)]

\* Lines 470-501: the modelScores row
ModelScoreRow(stats) ==
    [overallScore |-> toFixed2(MeanOf(NormalizedScores(stats))),
     weightedScore |-> toFixed2(MeanOf(NormalizedScores(stats))),
     scoreVariance |-> toFixed2(VarianceOf(NormalizedScores(stats))),
     totalQuestions |-> Len(stats)]

\* Lines 387-391: averageScorePercent
AverageScorePercent(stats) ==
    LET means == [i \in 1..Len(stats) |-> stats[i].mean_score]
        maxes == [i \in 1..Len(stats) |-> stats[i].max_score]
    IN RMul(RDiv(RSum(means), RSum(maxes)), RInt(100))

\* A loop that takes a pair as completed when any variant of its question is
NextPair_ByQuestion(p, completed) ==
    LET Done(k) == \E key \in completed : key[1] = QuestionOf(k)
    IN IF \E k \in p..NumPairs : ~Done(k)
       THEN CHOOSE k \in p..NumPairs : ~Done(k) /\ \A j \in p..(k - 1) : Done(j)
       ELSE NumPairs + 1

\* The first pair at or after p that is not in completedPairs (NumPairs + 1: none)
NextPair(p, completed) ==
    IF \E k \in p..NumPairs : PairKey(k) \notin completed
    THEN CHOOSE k \in p..NumPairs :
            /\ PairKey(k) \notin completed
            /\ \A j \in p..(k - 1) : PairKey(j) \in completed
    ELSE NumPairs + 1

\* Lines 278-281: the sampling parameters of run runNum
Temperature_AllRandom(runNum) == "0.7"

Temperature(runNum) == IF runNum = 1 THEN "0.0" ELSE "0.7"

Seed(runNum) == IF runNum = 1 THEN 0 ELSE Null

\* A response text is identified by the parameters of the generate call that gave it
NoText == [temperature |-> "none", seed |-> Null]

\* A judge reasoning is identified by the response text it is about
NoReasoning == [of |-> NoText]

\* Lines 242-318 and 426-447: the loops go on from pair p, skipping completed pairs,
\* up to the next await: the trials of a pair are launched, or the loops are over.
ContinueLoop(p, completed, stats) ==
    LET k == NextPair(p, completed)
    IN /\ pos' = k
       /\ insertI' = 0
       /\ IF k <= NumPairs
          THEN /\ trials' = [t \in 1..runsPerQuestion |->
                              [phase |-> "generate",
                               temperature |-> Temperature(t),
                               seed |-> Seed(t),
                               responseText |-> NoText,
                               score |-> Null, maxScore |-> Null,
                               judgeReasoning |-> NoReasoning,
                               completedLast |-> FALSE]]
               /\ evalCount' = [evalCount EXCEPT ![k] = @ + 1]
               /\ pillarTodo' = <<>>
               /\ pc' = "trials"
          ELSE /\ trials' = <<>>
               /\ UNCHANGED evalCount
               /\ pillarTodo' = PillarOrder(stats, {})
               /\ pc' = IF PillarOrder(stats, {}) = <<>> THEN "modelScore" ELSE "pillars"

\* runEvaluation rejects: catch (error) { ...; throw error; }
Reject(e) ==
    /\ pc' = "rejected"
    /\ error' = e

\* A call of runEvaluation begins (lines 134-150).
Begin(id) ==
    /\ pc \in Ended
    /\ nInvocations < MaxInvocations
    /\ nInvocations' = nInvocations + 1
    /\ resumeEvalRunId' = id
    /\ completedVariants' = 0
    /\ completedPairs' = {}
    /\ allResponseStats' = <<>>
    /\ pos' = 0
    /\ trials' = <<>>
    /\ insertI' = 0
    /\ pillarTodo' = <<>>
    /\ error' = "none"
    /\ startStatus' = dbRun.status
    /\ evalCount' = [p \in 1..NumPairs |-> 0]
    /\ dbWrites' = 0
    /\ events' = <<>>
    /\ UNCHANGED <<dbVars, runsPerQuestion, progressCallback, trueStats, rlVars, clientVars, secondVars, loadVars, cliVars, calcVars, judgeVars>>

\* runEvaluation(questions): a new evaluation
StartEvaluation ==
    /\ dbRun = NoRun
    /\ Begin("none")
    /\ pc' = "getModel"

\* runEvaluation(questions, resumeEvalRunId)
ResumeEvaluation(id) ==
    /\ id \in {"run", "missing"}
    /\ Begin(id)
    /\ pc' = "loadPartial"

\* Lines 172-191: get or create the model record
GetOrCreateModel ==
    /\ pc = "getModel"
    /\ dbModels' = TRUE
    /\ dbWrites' = IF dbModels THEN dbWrites ELSE dbWrites + 1
    /\ pc' = "createRun"
    /\ UNCHANGED <<dbRun, dbResponses, dbResponseRuns, dbPillarScores, dbModelScores,
                   runsPerQuestion, progressCallback, resumeEvalRunId, completedVariants,
                   completedPairs, allResponseStats, pos, trials, insertI, pillarTodo, error,
                   nInvocations, startStatus, evalCount, trueStats, events, rlVars, clientVars, secondVars, loadVars, cliVars, calcVars, judgeVars>>

\* Lines 193-207: create the evaluation run; then the loops begin
CreateRun ==
    /\ pc = "createRun"
    /\ dbRun' = [status |-> "running", totalQuestions |-> NumQuestions,
                 currentQuestion |-> 0, currentVariant |-> "null",
                 responsesCompleted |-> 0, averageScore |-> Null]
    /\ dbWrites' = dbWrites + 1
    /\ ContinueLoop(1, completedPairs, allResponseStats)
    /\ UNCHANGED <<dbModels, dbResponses, dbResponseRuns, dbPillarScores, dbModelScores,
                   runsPerQuestion, progressCallback, resumeEvalRunId, completedVariants,
                   completedPairs, allResponseStats, error,
                   nInvocations, startStatus, trueStats, events, rlVars, clientVars, secondVars, loadVars, cliVars, calcVars, judgeVars>>

\* A loader that lacks the status check of line 93
AlreadyCompleted_Unchecked(evalRun) == FALSE

\* Line 93
AlreadyCompleted(evalRun) == evalRun.status = "completed"

\* loadPartialEvaluation (lines 82-126) and lines 154-170
LoadPartialEvaluation ==
    /\ pc = "loadPartial"
    /\ IF resumeEvalRunId = "missing" \/ dbRun = NoRun
       THEN Reject("Evaluation run not found")
            /\ UNCHANGED <<completedVariants, completedPairs>>
       ELSE IF AlreadyCompleted(dbRun)
       THEN Reject("Evaluation run is already completed")
            /\ UNCHANGED <<completedVariants, completedPairs>>
       ELSE /\ completedVariants' = dbRun.responsesCompleted
            /\ completedPairs' = {<<dbResponses[i].questionId, dbResponses[i].questionVariant>> :
                                        i \in 1..Len(dbResponses)}
            /\ pc' = "loadStats"
            /\ UNCHANGED error
    /\ UNCHANGED <<dbVars, runsPerQuestion, progressCallback, resumeEvalRunId,
                   allResponseStats, pos, trials, insertI, pillarTodo,
                   obsVars, rlVars, clientVars, secondVars, loadVars, cliVars, calcVars, judgeVars>>

\* The rows of responseRuns of one response, in order of insertion
RunsOfResponse(id) ==
    LET Is(r) == r.responseId = id IN SelectSeq(dbResponseRuns, Is)

\* A resume that does not seed allResponseStats
ExistingStats_NotSeeded == <<>>

\* Lines 219-237: seed allResponseStats from the persisted responses
ExistingStats ==
    [i \in 1..Len(dbResponses) |->
        [mean_score |-> parseFloat(dbResponses[i].meanScore),
         max_score |-> parseFloat(RunsOfResponse(i)[1].maxScore),
         pillar_id |-> PillarId(dbResponses[i].questionId)]]

LoadExistingStats ==
    /\ pc = "loadStats"
    /\ IF \E i \in 1..Len(dbResponses) : RunsOfResponse(i) = <<>>
       THEN \* (await db.select()...limit(1))[0].maxScore: [0] is undefined
            /\ Reject("TypeError: maxScore of undefined")
            /\ UNCHANGED <<allResponseStats, pos, trials, insertI, pillarTodo, evalCount>>
       ELSE /\ allResponseStats' = ExistingStats
            /\ ContinueLoop(1, completedPairs, ExistingStats)
            /\ UNCHANGED error
    /\ UNCHANGED <<dbVars, runsPerQuestion, progressCallback, resumeEvalRunId,
                   completedVariants, completedPairs,
                   nInvocations, startStatus, dbWrites, trueStats, events, rlVars, clientVars, secondVars, loadVars, cliVars, calcVars, judgeVars>>

\* Lines 277-314, one trial: client.generate returns the model's response
GenerateReturns(t) ==
    /\ pc = "trials"
    /\ t \in DOMAIN trials
    /\ trials[t].phase = "generate"
    /\ trials' = [trials EXCEPT ![t].phase = "judge",
                                 ![t].responseText = [temperature |-> trials[t].temperature,
                                                      seed |-> trials[t].seed]]
    /\ UNCHANGED <<dbVars, runsPerQuestion, progressCallback, pc, resumeEvalRunId,
                   completedVariants, completedPairs, allResponseStats, pos, insertI,
                   pillarTodo, error, obsVars, rlVars, clientVars, secondVars, loadVars, cliVars, calcVars, judgeVars>>

\* client.generate throws after its retries: the trial, Promise.all and the run reject
GenerateFails(t) ==
    /\ pc = "trials"
    /\ t \in DOMAIN trials
    /\ trials[t].phase = "generate"
    /\ Reject("Generation failed")
    /\ UNCHANGED <<dbVars, runsPerQuestion, progressCallback, resumeEvalRunId,
                   completedVariants, completedPairs, allResponseStats, pos, trials, insertI,
                   pillarTodo, obsVars, rlVars, clientVars, secondVars, loadVars, cliVars, calcVars, judgeVars>>

\* judge.grade (judge.ts 36-56) gets the judge's text; runner.ts 296-312 builds the run
JudgeReturns(t, judgmentText) ==
    /\ pc = "trials"
    /\ t \in DOMAIN trials
    /\ trials[t].phase = "judge"
    /\ LET judgeResult == parseJudgment(judgmentText,
                                        getRubricForVariant(QuestionOf(pos), VariantOf(pos)))
       IN IF judgeResult.score = Undefined
          THEN \* line 305: judgeResult.score.toFixed(1) of undefined
               /\ Reject("TypeError: toFixed of undefined")
               /\ UNCHANGED trials
          ELSE /\ trials' = [trials EXCEPT ![t].phase = "done",
                                           ![t].score = judgeResult.score,
                                           ![t].maxScore = judgeResult.max_score,
                                           ![t].judgeReasoning =
                                                [of |-> trials[t].responseText],
                                           ![t].completedLast =
                                                \A u \in DOMAIN trials \ {t} :
                                                    trials[u].phase = "done"]
               /\ UNCHANGED <<pc, error>>
    /\ UNCHANGED <<dbVars, runsPerQuestion, progressCallback, resumeEvalRunId,
                   completedVariants, completedPairs, allResponseStats, pos, insertI,
                   pillarTodo, obsVars, rlVars, clientVars, secondVars, loadVars, cliVars, calcVars, judgeVars>>

\* judge.ts 53-55: the judge's API call throws; grade rethrows "Judge API call failed"
JudgeFails(t) ==
    /\ pc = "trials"
    /\ t \in DOMAIN trials
    /\ trials[t].phase = "judge"
    /\ Reject("Judge API call failed")
    /\ UNCHANGED <<dbVars, runsPerQuestion, progressCallback, resumeEvalRunId,
                   completedVariants, completedPairs, allResponseStats, pos, trials, insertI,
                   pillarTodo, obsVars, rlVars, clientVars, secondVars, loadVars, cliVars, calcVars, judgeVars>>

\* A fan-in that goes on as soon as one trial is done
AllTrialsDone_AnyDone ==
    /\ pc = "trials"
    /\ \E t \in DOMAIN trials : trials[t].phase = "done"

\* Promise.all(runPromises) has resolved
AllTrialsDone ==
    /\ pc = "trials"
    /\ \A t \in DOMAIN trials : trials[t].phase = "done"

\* Lines 321-322: scores of the trials of the current pair
TrialScores == [t \in DOMAIN trials |-> RInt(trials[t].score)]

\* Lines 339-355: insert the aggregate response row
InsertResponse ==
    /\ AllTrialsDone
    /\ dbResponses' = Append(dbResponses,
                             [writer |-> "first",
                              questionId |-> QuestionOf(pos),
                              questionVariant |-> VariantOf(pos),
                              responseText |-> trials[1].responseText,
                              judgeReasoning |-> trials[1].judgeReasoning,
                              meanScore |-> toFixed2(MeanOf(TrialScores)),
                              runCount |-> Len(trials)])
    /\ trueStats' = Append(trueStats,
                           [mean_score |-> MeanOf(TrialScores),
                            max_score |-> RInt(trials[1].maxScore),
                            pillar_id |-> PillarId(QuestionOf(pos))])
    /\ dbWrites' = dbWrites + 1
    /\ insertI' = 1
    /\ pc' = "insertRuns"
    /\ UNCHANGED <<dbModels, dbRun, dbResponseRuns, dbPillarScores, dbModelScores,
                   runsPerQuestion, progressCallback, resumeEvalRunId, completedVariants,
                   completedPairs, allResponseStats, pos, trials, pillarTodo, error,
                   nInvocations, startStatus, evalCount, events, rlVars, clientVars, secondVars, loadVars, cliVars, calcVars, judgeVars>>

\* Lines 339-355: const [response] = ... .returning(): the id of the row the runner
\* inserted last
ResponseIdOf(writer) ==
    CHOOSE i \in 1..Len(dbResponses) :
        /\ dbResponses[i].writer = writer
        /\ \A j \in (i + 1)..Len(dbResponses) : dbResponses[j].writer # writer

\* Lines 358-377: insert the row of trial insertI; after the last one, lines 370-377
InsertResponseRun ==
    /\ pc = "insertRuns"
    /\ dbResponseRuns' = Append(dbResponseRuns,
                                [responseId |-> ResponseIdOf("first"),
                                 runNumber |-> insertI,
                                 score |-> 100 * trials[insertI].score,
                                 maxScore |-> 100 * trials[insertI].maxScore,
                                 responseText |-> trials[insertI].responseText,
                                 judgeReasoning |-> trials[insertI].judgeReasoning])
    /\ dbWrites' = dbWrites + 1
    /\ IF insertI < Len(trials)
       THEN /\ insertI' = insertI + 1
            /\ UNCHANGED <<pc, allResponseStats, completedVariants>>
       ELSE /\ insertI' = 0
            /\ allResponseStats' = Append(allResponseStats,
                                          [mean_score |-> MeanOf(TrialScores),
                                           max_score |-> RInt(trials[1].maxScore),
                                           pillar_id |-> PillarId(QuestionOf(pos))])
            /\ completedVariants' = completedVariants + 1
            /\ pc' = "updateProgress"
    /\ UNCHANGED <<dbModels, dbRun, dbResponses, dbPillarScores, dbModelScores,
                   runsPerQuestion, progressCallback, resumeEvalRunId,
                   completedPairs, pos, trials, pillarTodo, error,
                   nInvocations, startStatus, evalCount, trueStats, events, rlVars, clientVars, secondVars, loadVars, cliVars, calcVars, judgeVars>>

\* A runner that calls the progress callback without awaiting it
CallbackAwaited_Never == FALSE

\* Lines 407-408 and 533-534: if (this.progressCallback) { await this.progressCallback(
CallbackAwaited == progressCallback

\* A runner that reports every event as 'running'
ProgressEvent_AlwaysRunning(status, currentQuestion, currentVariant, responsesCompleted, averageScore, run) ==
    [status |-> "running",
     currentQuestion |-> currentQuestion,
     currentVariant |-> currentVariant,
     responsesCompleted |-> responsesCompleted,
     averageScore |-> averageScore,
     returned |-> FALSE,
     persistedStatus |-> run.status,
     persistedCompleted |-> run.responsesCompleted]

\* The callback's argument, with the persisted run record as it is when it is called
ProgressEvent(status, currentQuestion, currentVariant, responsesCompleted, averageScore, run) ==
    [status |-> status,
     currentQuestion |-> currentQuestion,
     currentVariant |-> currentVariant,
     responsesCompleted |-> responsesCompleted,
     averageScore |-> averageScore,
     returned |-> FALSE,
     persistedStatus |-> run.status,
     persistedCompleted |-> run.responsesCompleted]

\* The pending call of the callback returns
MarkReturned(evs) == [evs EXCEPT ![Len(evs)].returned = TRUE]

\* Lines 394-422: update the evaluation run; then the progress callback, if there is one
UpdateProgress ==
    /\ pc = "updateProgress"
    /\ dbRun' = [dbRun EXCEPT !.currentQuestion = QuestionOf(pos),
                              !.currentVariant = VariantOf(pos),
                              !.responsesCompleted = completedVariants,
                              !.averageScore = toFixed2(AverageScorePercent(allResponseStats))]
    /\ dbWrites' = dbWrites + 1
    /\ events' = IF progressCallback
                 THEN Append(events,
                             ProgressEvent("running", QuestionOf(pos), VariantOf(pos),
                                           completedVariants,
                                           AverageScorePercent(allResponseStats), dbRun'))
                 ELSE events
    /\ IF CallbackAwaited
       THEN /\ pc' = "callback"
            /\ UNCHANGED <<pos, trials, insertI, pillarTodo, evalCount>>
       ELSE ContinueLoop(pos + 1, completedPairs, allResponseStats)
    /\ UNCHANGED <<dbModels, dbResponses, dbResponseRuns, dbPillarScores, dbModelScores,
                   runsPerQuestion, progressCallback, resumeEvalRunId, completedVariants,
                   completedPairs, allResponseStats, error,
                   nInvocations, startStatus, trueStats, rlVars, clientVars, secondVars, loadVars, cliVars, calcVars, judgeVars>>

\* Line 408: await this.progressCallback(...) returns
ProgressCallbackReturns ==
    /\ pc = "callback"
    /\ events' = MarkReturned(events)
    /\ ContinueLoop(pos + 1, completedPairs, allResponseStats)
    /\ UNCHANGED <<dbVars, runsPerQuestion, progressCallback, resumeEvalRunId,
                   completedVariants, completedPairs, allResponseStats, error,
                   nInvocations, startStatus, dbWrites, trueStats, rlVars, clientVars, secondVars, loadVars, cliVars, calcVars, judgeVars>>

\* Lines 449-467: insert the score row of the next pillar
InsertPillarScore ==
    /\ pc = "pillars"
    /\ dbPillarScores' = Append(dbPillarScores,
                                PillarScoreRow(allResponseStats, Head(pillarTodo)))
    /\ dbWrites' = dbWrites + 1
    /\ pillarTodo' = Tail(pillarTodo)
    /\ pc' = IF Tail(pillarTodo) = <<>> THEN "modelScore" ELSE "pillars"
    /\ UNCHANGED <<dbModels, dbRun, dbResponses, dbResponseRuns, dbModelScores,
                   runsPerQuestion, progressCallback, resumeEvalRunId, completedVariants,
                   completedPairs, allResponseStats, pos, trials, insertI, error,
                   nInvocations, startStatus, evalCount, trueStats, events, rlVars, clientVars, secondVars, loadVars, cliVars, calcVars, judgeVars>>

\* Lines 470-501: insert the model score row
InsertModelScore ==
    /\ pc = "modelScore"
    /\ dbModelScores' = Append(dbModelScores, ModelScoreRow(allResponseStats))
    /\ dbWrites' = dbWrites + 1
    /\ pc' = "markCompleted"
    /\ UNCHANGED <<dbModels, dbRun, dbResponses, dbResponseRuns, dbPillarScores,
                   runsPerQuestion, progressCallback, resumeEvalRunId, completedVariants,
                   completedPairs, allResponseStats, pos, trials, insertI, pillarTodo, error,
                   nInvocations, startStatus, evalCount, trueStats, events, rlVars, clientVars, secondVars, loadVars, cliVars, calcVars, judgeVars>>

\* Lines 510-516: mark the run completed; then the final callback, if there is one
MarkCompleted ==
    /\ pc = "markCompleted"
    /\ dbRun' = [dbRun EXCEPT !.status = "completed"]
    /\ dbWrites' = dbWrites + 1
    /\ events' = IF progressCallback
                 THEN Append(events,
                             ProgressEvent("completed", NumQuestions, "none",
                                           Len(allResponseStats),
                                           MeanOf(NormalizedScores(allResponseStats)), dbRun'))
                 ELSE events
    /\ pc' = IF CallbackAwaited THEN "finalCallback" ELSE "resolved"
    /\ UNCHANGED <<dbModels, dbResponses, dbResponseRuns, dbPillarScores, dbModelScores,
                   runsPerQuestion, progressCallback, resumeEvalRunId, completedVariants,
                   completedPairs, allResponseStats, pos, trials, insertI, pillarTodo, error,
                   nInvocations, startStatus, evalCount, trueStats, rlVars, clientVars, secondVars, loadVars, cliVars, calcVars, judgeVars>>

\* Lines 533-546: the final progress callback returns; runEvaluation resolves
FinalCallbackReturns ==
    /\ pc = "finalCallback"
    /\ pc' = "resolved"
    /\ events' = MarkReturned(events)
    /\ UNCHANGED <<dbVars, runsPerQuestion, progressCallback, resumeEvalRunId,
                   completedVariants, completedPairs, allResponseStats, pos, trials, insertI,
                   pillarTodo, error, nInvocations, startStatus, evalCount, dbWrites, trueStats,
                   rlVars, clientVars, secondVars, loadVars, cliVars, calcVars, judgeVars>>

\* The awaited database call of the current step
AwaitingStorage ==
    \/ pc \in {"getModel", "createRun", "loadPartial", "loadStats", "insertRuns",
               "updateProgress", "pillars", "modelScore", "markCompleted"}
    \/ AllTrialsDone

\* The awaited database call throws: nothing is written, the catch of 564-567 rethrows
StorageFails ==
    /\ AwaitingStorage
    /\ Reject("Storage error")
    /\ UNCHANGED <<dbVars, runsPerQuestion, progressCallback, resumeEvalRunId,
                   completedVariants, completedPairs, allResponseStats, pos, trials, insertI,
                   pillarTodo, obsVars, rlVars, clientVars, secondVars, loadVars, cliVars, calcVars, judgeVars>>

\* The awaited progress callback (line 408 or 534) throws
CallbackFails ==
    /\ pc \in {"callback", "finalCallback"}
    /\ Reject("Callback error")
    /\ UNCHANGED <<dbVars, runsPerQuestion, progressCallback, resumeEvalRunId,
                   completedVariants, completedPairs, allResponseStats, pos, trials, insertI,
                   pillarTodo, obsVars, rlVars, clientVars, secondVars, loadVars, cliVars, calcVars, judgeVars>>

\* The process is killed or crashes while runEvaluation is pending
Interrupt ==
    /\ pc \notin Ended
    /\ pc' = "killed"
    /\ UNCHANGED <<dbVars, runsPerQuestion, progressCallback, resumeEvalRunId,
                   completedVariants, completedPairs, allResponseStats, pos, trials, insertI,
                   pillarTodo, error, obsVars, rlVars, clientVars, secondVars, loadVars, cliVars, calcVars, judgeVars>>

InitRunner ==
    /\ dbModels = FALSE
    /\ dbRun = NoRun
    /\ dbResponses = <<>>
    /\ dbResponseRuns = <<>>
    /\ dbPillarScores = <<>>
    /\ dbModelScores = <<>>
    /\ runsPerQuestion \in 1..MaxRunsPerQuestion
    /\ progressCallback \in BOOLEAN
    /\ pc = "idle"
    /\ resumeEvalRunId = "none"
    /\ completedVariants = 0
    /\ completedPairs = {}
    /\ allResponseStats = <<>>
    /\ pos = 0
    /\ trials = <<>>
    /\ insertI = 0
    /\ pillarTodo = <<>>
    /\ error = "none"
    /\ nInvocations = 0
    /\ startStatus = "none"
    /\ evalCount = [p \in 1..NumPairs |-> 0]
    /\ dbWrites = 0
    /\ trueStats = <<>>
    /\ events = <<>>

Next ==
    \/ StartEvaluation
    \/ \E id \in {"run", "missing"} : ResumeEvaluation(id)
    \/ GetOrCreateModel
    \/ CreateRun
    \/ LoadPartialEvaluation
    \/ LoadExistingStats
    \/ \E t \in 1..MaxRunsPerQuestion : GenerateReturns(t)
    \/ \E t \in 1..MaxRunsPerQuestion : GenerateFails(t)
    \/ \E t \in 1..MaxRunsPerQuestion : \E judgmentText \in JudgeTexts :
            JudgeReturns(t, judgmentText)
    \/ \E t \in 1..MaxRunsPerQuestion : JudgeFails(t)
    \/ InsertResponse
    \/ InsertResponseRun
    \/ UpdateProgress
    \/ ProgressCallbackReturns
    \/ InsertPillarScore
    \/ InsertModelScore
    \/ MarkCompleted
    \/ FinalCallbackReturns
    \/ StorageFails
    \/ CallbackFails
    \/ Interrupt

----------------------------------------------------------------------------
(* The provider clients: OpenRouterClient.generate (openrouter.ts) and        *)
(* MagisteriumClient.generate (evaluations-loader.ts).  One generate call;    *)
(* time jumps from event to event.                                            *)

maxRetries == 3
retryDelay == 2000
DefaultTimeoutMs == 300000

Clients == {"openrouter", "magisterium"}

\* timeoutMs given to the constructor
TimeoutChoices == {1000, DefaultTimeoutMs}

\* What the provider answers to one request:
\*   "text"            2xx, choices[0].message.content is a non-blank text
\*   "blank"           2xx, the content is blank, no citations
\*   "blank_citations" 2xx, the content is blank, citations carry cited_text
\*   "no_choices"      2xx without choices
\*   "error"           non-2xx status, network error, the SDK throws
Answers == {"text", "blank", "blank_citations", "no_choices", "error"}

\* How long the provider takes to answer, and how long the rate limiter holds a call
Latencies == {0, 500}
ThrottleWaits == {0, windowMs \div MAGISTERIUM_RPM_LIMIT}

NoTimer == -1

\* The text generate returns for an answer, or "throw" when the try block throws
ResultOf(client, answer) ==
    IF client = "openrouter"
    THEN \* openrouter.ts 103-114: content.trim() of any content
         CASE answer = "text" -> "content"
           [] answer \in {"blank", "blank_citations"} -> ""
           [] OTHER -> "throw"
    ELSE \* evaluations-loader.ts 403-436
         CASE answer = "text" -> "content"
           [] answer = "blank_citations" -> "cited_text"
           [] OTHER -> "throw"

\* const delay = retryDelay * (attempt + 1), attempt counted from 0
BackoffDelay_Constant(attempt) == retryDelay

BackoffDelay(attempt) == retryDelay * (attempt + 1)

\* for (let attempt = 0; attempt < maxRetries; attempt++): the try block begins
BeginAttempt(g, attempt) ==
    LET h == [g EXCEPT !.attempt = attempt,
                       !.requests = Append(@, [startedAt |-> g.now, endedAt |-> NoTimer,
                                               outcome |-> "pending"])]
    IN IF g.client = "openrouter"
       THEN \* fetch(..., signal: AbortSignal.timeout(this.timeoutMs))
            [h EXCEPT !.phase = "request", !.deadline = g.now + g.timeoutMs]
       ELSE \* rateLimiter.throttle('magisterium', MAGISTERIUM_RPM_LIMIT, fn)
            [h EXCEPT !.phase = "throttle"]

\* The catch block of an attempt that threw at time g.now
CatchError(g, outcome) ==
    LET h == [g EXCEPT !.requests[Len(g.requests)].outcome = outcome,
                       !.requests[Len(g.requests)].endedAt = g.now,
                       !.deadline = NoTimer]
    IN IF g.attempt < maxRetries - 1
       THEN [h EXCEPT !.phase = "backoff",
                      !.wake = g.now + BackoffDelay(g.attempt),
                      !.waits = Append(@, [from |-> g.now,
                                           delay |-> BackoffDelay(g.attempt)])]
       ELSE [h EXCEPT !.phase = "failed"]

IdleGen ==
    [client |-> "none", timeoutMs |-> 0, phase |-> "idle", attempt |-> 0, now |-> 0,
     requests |-> <<>>, waits |-> <<>>, deadline |-> NoTimer, aborted |-> FALSE,
     wake |-> NoTimer, result |-> "none"]

\* client.generate(prompt, ...) is called on a client constructed with timeoutMs
Generate(client, timeoutMs) ==
    /\ gen.phase = "idle"
    /\ gen' = BeginAttempt([gen EXCEPT !.client = client, !.timeoutMs = timeoutMs], 0)
    /\ UNCHANGED <<rlVars, dbVars, runnerVars, obsVars, secondVars, loadVars, cliVars, calcVars, judgeVars>>

\* The rate limiter invokes fn after its wait (evaluations-loader.ts 375-399): the
\* abort timer is set and the request is sent
ThrottleInvokes(wait) ==
    /\ gen.phase = "throttle"
    /\ gen' = [gen EXCEPT !.phase = "request",
                          !.now = gen.now + wait,
                          !.deadline = gen.now + wait + gen.timeoutMs]
    /\ UNCHANGED <<rlVars, dbVars, runnerVars, obsVars, secondVars, loadVars, cliVars, calcVars, judgeVars>>

\* The provider answers the pending request
ProviderAnswers(answer, latency) ==
    /\ gen.phase = "request"
    /\ gen.deadline # NoTimer => gen.now + latency < gen.deadline
    /\ gen.client = "openrouter" => ~gen.aborted
    /\ LET g == [gen EXCEPT !.now = gen.now + latency]
       IN gen' = IF ResultOf(gen.client, answer) = "throw"
                 THEN CatchError(g, answer)
                 ELSE [g EXCEPT !.phase = "returned",
                                !.result = ResultOf(gen.client, answer),
                                !.deadline = NoTimer,
                                !.requests[Len(g.requests)].outcome = answer,
                                !.requests[Len(g.requests)].endedAt = g.now]
    /\ UNCHANGED <<rlVars, dbVars, runnerVars, obsVars, secondVars, loadVars, cliVars, calcVars, judgeVars>>

\* The timer of timeoutMs fires while the request is pending.
\* openrouter.ts 100: the signal is the fetch's, the fetch rejects.
\* evaluations-loader.ts 389-394: controller.abort() is called, but the controller's
\* signal was not given to chat.completions.create: the request stays pending.
TimeoutFires ==
    /\ gen.phase = "request"
    /\ gen.deadline # NoTimer
    /\ LET g == [gen EXCEPT !.now = gen.deadline, !.deadline = NoTimer, !.aborted = TRUE]
       IN gen' = IF gen.client = "openrouter" THEN CatchError(g, "timeout") ELSE g
    /\ UNCHANGED <<rlVars, dbVars, runnerVars, obsVars, secondVars, loadVars, cliVars, calcVars, judgeVars>>

\* await new Promise((resolve) => setTimeout(resolve, delay)) ends: next attempt
BackoffEnds ==
    /\ gen.phase = "backoff"
    /\ gen' = BeginAttempt([gen EXCEPT !.now = gen.wake, !.wake = NoTimer, !.aborted = FALSE],
                           gen.attempt + 1)
    /\ UNCHANGED <<rlVars, dbVars, runnerVars, obsVars, secondVars, loadVars, cliVars, calcVars, judgeVars>>

InitGen == gen = IdleGen

NextGen ==
    \/ \E client \in Clients : \E timeoutMs \in TimeoutChoices : Generate(client, timeoutMs)
    \/ \E wait \in ThrottleWaits : ThrottleInvokes(wait)
    \/ \E answer \in Answers : \E latency \in Latencies : ProviderAnswers(answer, latency)
    \/ TimeoutFires
    \/ BackoffEnds

----------------------------------------------------------------------------
(* A second EvalRunner (another process: run-eval with the run's id, or the   *)
(* API) calls runEvaluation(questions, resumeEvalRunId) on the same run while *)
(* the first call may still be pending.  Same code as above, with the trials  *)
(* of a pair taken as one step (Promise.all resolves) and no progress         *)
(* callback (run-eval.ts passes none).                                        *)

IdleSecond ==
    [pc |-> "idle", completedVariants |-> 0, completedPairs |-> {},
     allResponseStats |-> <<>>, pos |-> 0, score |-> Null, insertI |-> 0,
     pillarTodo |-> <<>>]

\* The judge texts that are the JSON asked for
WellFormedTexts == {t \in JudgeTexts : JsonStr(t) = "object"}

\* Lines 242-254 and 426-447 for the second runner: on from pair p
SecondContinue(g, p) ==
    LET k == NextPair(p, g.completedPairs)
    IN IF k <= NumPairs
       THEN [g EXCEPT !.pos = k, !.pc = "trials"]
       ELSE [g EXCEPT !.pos = k,
                      !.pillarTodo = PillarOrder(g.allResponseStats, {}),
                      !.pc = IF PillarOrder(g.allResponseStats, {}) = <<>>
                             THEN "modelScore" ELSE "pillars"]

\* runEvaluation(questions, resumeEvalRunId) is called in the second process
SecondResume ==
    /\ second.pc = "idle"
    /\ dbRun # NoRun
    /\ second' = [second EXCEPT !.pc = "loadPartial"]
    /\ UNCHANGED <<rlVars, dbVars, runnerVars, obsVars, clientVars, loadVars, cliVars, calcVars, judgeVars>>

\* loadPartialEvaluation (lines 82-126) and lines 154-170
SecondLoadPartial ==
    /\ second.pc = "loadPartial"
    /\ second' = IF AlreadyCompleted(dbRun)
                 THEN [second EXCEPT !.pc = "rejected"]
                 ELSE [second EXCEPT
                         !.pc = "loadStats",
                         !.completedVariants = dbRun.responsesCompleted,
                         !.completedPairs =
                            {<<dbResponses[i].questionId, dbResponses[i].questionVariant>> :
                                i \in 1..Len(dbResponses)}]
    /\ UNCHANGED <<rlVars, dbVars, runnerVars, obsVars, clientVars, loadVars, cliVars, calcVars, judgeVars>>

\* Lines 219-237, then the loops begin
SecondLoadStats ==
    /\ second.pc = "loadStats"
    /\ second' = IF \E i \in 1..Len(dbResponses) : RunsOfResponse(i) = <<>>
                 THEN [second EXCEPT !.pc = "rejected"]
                 ELSE SecondContinue([second EXCEPT !.allResponseStats = ExistingStats], 1)
    /\ UNCHANGED <<rlVars, dbVars, runnerVars, obsVars, clientVars, loadVars, cliVars, calcVars, judgeVars>>

\* Lines 277-322: Promise.all(runPromises) resolves; every trial got this judgment
SecondTrialsResolve(judgmentText) ==
    /\ second.pc = "trials"
    /\ second' = [second EXCEPT
                    !.pc = "insertResponse",
                    !.score = parseJudgment(judgmentText,
                                            getRubricForVariant(QuestionOf(second.pos),
                                                                VariantOf(second.pos))).score]
    /\ UNCHANGED <<rlVars, dbVars, runnerVars, obsVars, clientVars, loadVars, cliVars, calcVars, judgeVars>>

\* Lines 278-281: what trial t of a pair was generated with
SecondText(t) == [temperature |-> Temperature(t), seed |-> Seed(t)]

\* Lines 339-355
SecondInsertResponse ==
    /\ second.pc = "insertResponse"
    /\ dbResponses' = Append(dbResponses,
                             [writer |-> "second",
                              questionId |-> QuestionOf(second.pos),
                              questionVariant |-> VariantOf(second.pos),
                              responseText |-> SecondText(1),
                              judgeReasoning |-> [of |-> SecondText(1)],
                              meanScore |-> toFixed2(RInt(second.score)),
                              runCount |-> runsPerQuestion])
    /\ second' = [second EXCEPT !.pc = "insertRuns", !.insertI = 1]
    /\ UNCHANGED <<dbModels, dbRun, dbResponseRuns, dbPillarScores, dbModelScores,
                   rlVars, runnerVars, obsVars, clientVars, loadVars, cliVars, calcVars, judgeVars>>

\* Lines 358-377
SecondInsertResponseRun ==
    /\ second.pc = "insertRuns"
    /\ dbResponseRuns' =
            Append(dbResponseRuns,
                   [responseId |-> ResponseIdOf("second"),
                    runNumber |-> second.insertI,
                    score |-> 100 * second.score,
                    maxScore |-> 100 * getRubricForVariant(QuestionOf(second.pos),
                                                           VariantOf(second.pos)).max_score,
                    responseText |-> SecondText(second.insertI),
                    judgeReasoning |-> [of |-> SecondText(second.insertI)]])
    /\ second' =
            IF second.insertI < runsPerQuestion
            THEN [second EXCEPT !.insertI = second.insertI + 1]
            ELSE [second EXCEPT
                    !.insertI = 0,
                    !.allResponseStats =
                        Append(@, [mean_score |-> RInt(second.score),
                                   max_score |-> RInt(getRubricForVariant(
                                                        QuestionOf(second.pos),
                                                        VariantOf(second.pos)).max_score),
                                   pillar_id |-> PillarId(QuestionOf(second.pos))]),
                    !.completedVariants = second.completedVariants + 1,
                    !.pc = "updateProgress"]
    /\ UNCHANGED <<dbModels, dbRun, dbResponses, dbPillarScores, dbModelScores,
                   rlVars, runnerVars, obsVars, clientVars, loadVars, cliVars, calcVars, judgeVars>>

\* Lines 394-404, then the loops go on
SecondUpdateProgress ==
    /\ second.pc = "updateProgress"
    /\ dbRun' = [dbRun EXCEPT
                    !.currentQuestion = QuestionOf(second.pos),
                    !.currentVariant = VariantOf(second.pos),
                    !.responsesCompleted = second.completedVariants,
                    !.averageScore = toFixed2(AverageScorePercent(second.allResponseStats))]
    /\ second' = SecondContinue(second, second.pos + 1)
    /\ UNCHANGED <<dbModels, dbResponses, dbResponseRuns, dbPillarScores, dbModelScores,
                   rlVars, runnerVars, obsVars, clientVars, loadVars, cliVars, calcVars, judgeVars>>

\* Lines 449-467
SecondInsertPillarScore ==
    /\ second.pc = "pillars"
    /\ dbPillarScores' = Append(dbPillarScores,
                                PillarScoreRow(second.allResponseStats,
                                               Head(second.pillarTodo)))
    /\ second' = [second EXCEPT
                    !.pillarTodo = Tail(second.pillarTodo),
                    !.pc = IF Tail(second.pillarTodo) = <<>> THEN "modelScore" ELSE "pillars"]
    /\ UNCHANGED <<dbModels, dbRun, dbResponses, dbResponseRuns, dbModelScores,
                   rlVars, runnerVars, obsVars, clientVars, loadVars, cliVars, calcVars, judgeVars>>

\* Lines 470-501
SecondInsertModelScore ==
    /\ second.pc = "modelScore"
    /\ dbModelScores' = Append(dbModelScores, ModelScoreRow(second.allResponseStats))
    /\ second' = [second EXCEPT !.pc = "markCompleted"]
    /\ UNCHANGED <<dbModels, dbRun, dbResponses, dbResponseRuns, dbPillarScores,
                   rlVars, runnerVars, obsVars, clientVars, loadVars, cliVars, calcVars, judgeVars>>

\* Lines 510-516
SecondMarkCompleted ==
    /\ second.pc = "markCompleted"
    /\ dbRun' = [dbRun EXCEPT !.status = "completed"]
    /\ second' = [second EXCEPT !.pc = "resolved"]
    /\ UNCHANGED <<dbModels, dbResponses, dbResponseRuns, dbPillarScores, dbModelScores,
                   rlVars, runnerVars, obsVars, clientVars, loadVars, cliVars, calcVars, judgeVars>>

InitSecond == second = IdleSecond

\* new EvalRunner(..., runsPerQuestion) of run-eval.ts, which passes no callback
ConcRuns == 1

\* The first runner's call goes its way without failures, the second runner resumes
NextConc ==
    \/ StartEvaluation /\ runsPerQuestion' = ConcRuns /\ ~progressCallback'
    \/ GetOrCreateModel
    \/ CreateRun
    \/ \E t \in 1..MaxRunsPerQuestion : GenerateReturns(t)
    \/ \E t \in 1..MaxRunsPerQuestion : \E judgmentText \in WellFormedTexts :
            JudgeReturns(t, judgmentText)
    \/ InsertResponse
    \/ InsertResponseRun
    \/ UpdateProgress
    \/ InsertPillarScore
    \/ InsertModelScore
    \/ MarkCompleted
    \/ SecondResume
    \/ SecondLoadPartial
    \/ SecondLoadStats
    \/ \E judgmentText \in WellFormedTexts : SecondTrialsResolve(judgmentText)
    \/ SecondInsertResponse
    \/ SecondInsertResponseRun
    \/ SecondUpdateProgress
    \/ SecondInsertPillarScore
    \/ SecondInsertModelScore
    \/ SecondMarkCompleted

----------------------------------------------------------------------------
(* QuestionLoader (loader.ts) and the part of main (run-eval.ts) that calls   *)
(* it.  A rubric is the list of its criteria's weights, in hundredths; the    *)
(* lists of RubricChoices are such that the double sum the code computes      *)
(* compares with 0.99 and 1.01 as the decimal sum does.                       *)

\* The rubrics a questions file is written with: criteria weights of a rubric
RubricChoices ==
    {<<50, 50>>, <<50, 60>>, <<49, 50>>, <<50, 51>>, <<40, 40, 20>>, <<50>>, <<>>, <<150>>}

\* The questions files: NumQuestions questions, each with its two rubrics
QuestionFiles ==
    [1..NumQuestions -> [id : {"q"},
                         rubrics : [explicit : RubricChoices, implicit : RubricChoices]]]

\* RubricCriterionSchema: weight: z.number().min(0).max(1)
SchemaAccepts(file) ==
    \A q \in DOMAIN file : \A label \in {"explicit", "implicit"} :
        \A c \in DOMAIN file[q].rubrics[label] :
            /\ file[q].rubrics[label][c] >= 0
            /\ file[q].rubrics[label][c] <= 100

\* rubric.criteria.reduce((sum, c) => sum + c.weight, 0)
RECURSIVE TotalWeight(_)
TotalWeight(criteria) ==
    IF criteria = <<>> THEN 0
    ELSE TotalWeight(SubSeq(criteria, 1, Len(criteria) - 1)) + criteria[Len(criteria)]

\* totalWeight < 0.99 || totalWeight > 1.01
OutOfTolerance(totalWeight) == totalWeight < 99 \/ totalWeight > 101

\* The warnings of one call for the rubrics given, in the order of rubricsToValidate
RubricWarnings(question, labels) ==
    LET W(label) == IF OutOfTolerance(TotalWeight(question.rubrics[label]))
                    THEN <<[label |-> label, question |-> question.id,
                            sum |-> TotalWeight(question.rubrics[label])]>>
                    ELSE <<>>
    IN W(labels[1]) \o W(labels[2])

\* A validation that rejects the question whose weights do not sum to 1
validateRubricWeights_Rejecting(question) ==
    LET warnings == RubricWarnings(question, <<"explicit", "implicit">>)
    IN [allValid |-> warnings = <<>>, warnings |-> warnings, threw |-> warnings # <<>>]

\* QuestionLoader.validateRubricWeights(question): what it returns, what it logs with
\* console.warn, whether it throws
validateRubricWeights(question) ==
    LET warnings == RubricWarnings(question, <<"explicit", "implicit">>)
    IN [allValid |-> warnings = <<>>, warnings |-> warnings, threw |-> FALSE]

\* for (const q of questions) validateRubricWeights(q): the warnings of all the calls,
\* up to the first call that throws
RECURSIVE ValidateAll(_, _)
ValidateAll(questions, n) ==
    IF n = 0 THEN [returned |-> <<>>, warnings |-> <<>>, threw |-> FALSE]
    ELSE LET before == ValidateAll(questions, n - 1)
             this == validateRubricWeights(questions[n])
         IN IF before.threw THEN before
            ELSE [returned |-> Append(before.returned, this.allValid),
                  warnings |-> before.warnings \o this.warnings,
                  threw |-> this.threw]

NotLoaded == [pc |-> "idle", file |-> <<>>, questions |-> <<>>, returned |-> <<>>,
              warnings |-> <<>>, error |-> "none"]

\* run-eval.ts line 104, QuestionLoader.load(questionsPath) (loader.ts 48-71)
Load(file) ==
    /\ load.pc = "idle"
    /\ load' =
        IF ~SchemaAccepts(file)
        THEN \* QuestionsFileSchema.parse throws a ZodError
             [load EXCEPT !.pc = "threw", !.file = file,
                          !.error = "YAML validation failed"]
        ELSE LET v == ValidateAll(file, Len(file))
             IN IF v.threw
                THEN [load EXCEPT !.pc = "threw", !.file = file, !.warnings = v.warnings,
                                  !.error = "validateRubricWeights"]
                ELSE [load EXCEPT !.pc = "loaded", !.file = file, !.questions = file,
                                  !.returned = v.returned, !.warnings = v.warnings]
    /\ UNCHANGED <<rlVars, dbVars, runnerVars, obsVars, clientVars, secondVars, cliVars, calcVars, judgeVars>>

\* run-eval.ts lines 106-109: main validates the weights of every question again
MainValidates ==
    /\ load.pc = "loaded"
    /\ LET v == ValidateAll(load.questions, Len(load.questions))
       IN load' = IF v.threw
                  THEN [load EXCEPT !.pc = "threw", !.warnings = @ \o v.warnings,
                                    !.error = "validateRubricWeights"]
                  ELSE [load EXCEPT !.pc = "ready", !.returned = v.returned,
                                    !.warnings = @ \o v.warnings]
    /\ UNCHANGED <<rlVars, dbVars, runnerVars, obsVars, clientVars, secondVars, cliVars, calcVars, judgeVars>>

InitLoad == load = NotLoaded

\* main: the questions are loaded, then runner.runEvaluation(questions) (line 164) runs
\* without failures
NextLoad ==
    \/ \E file \in QuestionFiles : Load(file)
    \/ MainValidates
    \/ load.pc = "ready" /\ StartEvaluation /\ runsPerQuestion' = ConcRuns
                         /\ ~progressCallback'
    \/ GetOrCreateModel
    \/ CreateRun
    \/ \E t \in 1..MaxRunsPerQuestion : GenerateReturns(t)
    \/ \E t \in 1..MaxRunsPerQuestion : \E judgmentText \in WellFormedTexts :
            JudgeReturns(t, judgmentText)
    \/ InsertResponse
    \/ InsertResponseRun
    \/ UpdateProgress
    \/ InsertPillarScore
    \/ InsertModelScore
    \/ MarkCompleted

----------------------------------------------------------------------------
(* main of run-eval.ts: the command line, the environment, the exit code.     *)
(* The arguments are taken as parsed by the loop of lines 40-63; the call of  *)
(* runEvaluation is awaited and either resolves or rejects.                   *)

\* parseInt's result for a text that does not begin with a number
NaN == -3

\* --model: absent, an OpenRouter model, the Magisterium model, a name of no
\* configuration, a name that Object.prototype holds
ModelNames == {"none", "gpt-4", "magisterium-1", "no-such-model", "toString"}

\* --runs: absent, or the text given
RunsArgs == {"none", "0", "1", "10", "11", "-5", "7x", "abc"}

CliArgs == [help : BOOLEAN, model : ModelNames, runs : RunsArgs, resume : {"none", "run"}]

\* process.env.OPENROUTER_API_KEY, process.env.MAGISTERIUM_API_KEY: present or not
CliEnv == [openrouter : BOOLEAN, magisterium : BOOLEAN]

\* parseInt(text, 10) of the texts of RunsArgs
parseInt(text) ==
    CASE text = "0" -> 0
      [] text = "1" -> 1
      [] text = "10" -> 10
      [] text = "11" -> 11
      [] text = "-5" -> -5
      [] text = "7x" -> 7
      [] OTHER -> NaN

\* !runsPerQuestion
NoRuns(runs) == runs \in {Undefined, NaN, 0}

\* modelName in allModelConfigs: an object literal, so the names of Object.prototype
\* are in it too
InAllModelConfigs(modelName) == modelName \in {"gpt-4", "magisterium-1", "toString"}

\* allModelConfigs[modelName]: which of the two model fields the value has
ModelConfigOf(modelName) ==
    [openrouter_model |-> modelName = "gpt-4",
     magisterium_model |-> modelName = "magisterium-1"]

NotStarted ==
    [pc |-> "idle", args |-> [help |-> FALSE, model |-> "none", runs |-> "none",
                              resume |-> "none"],
     env |-> [openrouter |-> FALSE, magisterium |-> FALSE],
     runsPerQuestion |-> Undefined, constructed |-> FALSE, exitCode |-> Null,
     stage |-> "none", ran |-> "none"]

\* main returns code: process.exit(code)
Exit(c, code, stage) == [c EXCEPT !.pc = "exited", !.exitCode = code, !.stage = stage]

\* Lines 30-91: the arguments are parsed and validated
MainArguments(args, env) ==
    /\ cli.pc = "idle"
    /\ LET runs == IF args.runs = "none" THEN Undefined ELSE parseInt(args.runs)
           c == [cli EXCEPT !.args = args, !.env = env, !.runsPerQuestion = runs]
       IN cli' =
            IF args.help THEN Exit(c, 0, "help")
            ELSE IF args.resume = "none" /\ args.model = "none"
                 THEN Exit(c, 1, "model required")
            ELSE IF args.resume = "none" /\ NoRuns(runs)
                 THEN Exit(c, 1, "runs required")
            ELSE IF ~NoRuns(runs) /\ (runs = NaN \/ runs < 1 \/ runs > 10)
                 THEN Exit(c, 1, "runs range")
            ELSE IF args.model # "none" /\ ~InAllModelConfigs(args.model)
                 THEN Exit(c, 1, "unknown model")
            ELSE [c EXCEPT !.pc = "load"]
    /\ UNCHANGED <<rlVars, dbVars, runnerVars, obsVars, clientVars, secondVars, loadVars,
                   calcVars, judgeVars>>

\* Lines 97-161, after the questions were loaded (or load threw): the model's
\* configuration, the credentials, new EvalRunner (runner.ts 47-75)
MainConstructs ==
    /\ cli.pc = "load"
    /\ load.pc \in {"threw", "ready"}
    /\ LET runs == IF cli.args.resume # "none" /\ NoRuns(cli.runsPerQuestion)
                   THEN 3 ELSE cli.runsPerQuestion
           modelConfig == ModelConfigOf(cli.args.model)
       IN cli' =
            IF load.pc = "threw" THEN Exit(cli, 1, "load")
            ELSE IF cli.args.resume # "none" /\ cli.args.model = "none"
                 THEN Exit(cli, 1, "resume without model")
            ELSE IF modelConfig.magisterium_model /\ ~cli.env.magisterium
                 THEN Exit([cli EXCEPT !.runsPerQuestion = runs], 1, "credential")
            ELSE IF modelConfig.openrouter_model /\ ~cli.env.openrouter
                 THEN Exit([cli EXCEPT !.runsPerQuestion = runs], 1, "credential")
            ELSE IF ~modelConfig.magisterium_model /\ ~modelConfig.openrouter_model
                 THEN \* the constructor throws
                      Exit([cli EXCEPT !.runsPerQuestion = runs], 1, "constructor")
            ELSE [cli EXCEPT !.runsPerQuestion = runs, !.constructed = TRUE,
                             !.pc = "running"]
    /\ UNCHANGED <<rlVars, dbVars, runnerVars, obsVars, clientVars, secondVars, loadVars,
                   calcVars, judgeVars>>

\* Lines 164-173: await runner.runEvaluation(questions, resumeEvalRunId) settles
RunEvaluationSettles(outcome) ==
    /\ cli.pc = "running"
    /\ outcome \in {"resolved", "rejected"}
    /\ cli' = Exit([cli EXCEPT !.ran = outcome], IF outcome = "resolved" THEN 0 ELSE 1, "run")
    /\ UNCHANGED <<rlVars, dbVars, runnerVars, obsVars, clientVars, secondVars, loadVars,
                   calcVars, judgeVars>>

InitCli == cli = NotStarted

NextCli ==
    \/ \E args \in CliArgs : \E env \in CliEnv : MainArguments(args, env)
    \/ cli.pc = "load" /\ \E file \in QuestionFiles : Load(file)
    \/ MainValidates
    \/ MainConstructs
    \/ \E outcome \in {"resolved", "rejected"} : RunEvaluationSettles(outcome)

----------------------------------------------------------------------------
(* Statistics (part_005).  Numbers are the exact rationals of above; a value  *)
(* the code gets from Math.sqrt is kept by its square.                        *)

\* Bounds of the statistics
MaxScores == 3

\* The scores given: trial scores of one pair, or normalized scores of pairs
ScoreValues == {0, 80, 85, 90}

ScoreSeqs == UNION {[1..n -> {RInt(v) : v \in ScoreValues}] : n \in 0..MaxScores}

\* a <= b
RLeq(a, b) == a.n * b.d <= b.n * a.d

\* Math.min(...scores), Math.max(...scores) of a non-empty array
MathMin(scores) ==
    scores[CHOOSE i \in DOMAIN scores : \A j \in DOMAIN scores : RLeq(scores[i], scores[j])]

MathMax(scores) ==
    scores[CHOOSE i \in DOMAIN scores : \A j \in DOMAIN scores : RLeq(scores[j], scores[i])]

\* Math.sqrt(x) for x >= 0: the non-negative number whose square is x
MathSqrt(x) == [sq |-> x]

\* calculateConsistencyMetrics(scores)
calculateConsistencyMetrics(scores) ==
    IF Len(scores) = 0
    THEN [mean |-> RInt(0), stdDev |-> MathSqrt(RInt(0)),
          coefficientOfVariation |-> MathSqrt(RInt(0)),
          min |-> RInt(0), max |-> RInt(0), variance |-> RInt(0)]
    ELSE IF Len(scores) = 1
    THEN [mean |-> MeanOf(scores), stdDev |-> MathSqrt(RInt(0)),
          coefficientOfVariation |-> MathSqrt(RInt(0)),
          min |-> scores[1], max |-> scores[1], variance |-> RInt(0)]
    ELSE LET mean == MeanOf(scores)
             variance == VarianceOf(scores)
             stdDev == MathSqrt(variance)
         IN [mean |-> mean, stdDev |-> stdDev,
             \* stdDev / mean for mean > 0: the root of variance / mean^2
             coefficientOfVariation |->
                IF mean.n # 0 THEN MathSqrt(RDiv(stdDev.sq, RMul(mean, mean)))
                ELSE MathSqrt(RInt(0)),
             min |-> MathMin(scores), max |-> MathMax(scores), variance |-> variance]

NoMetrics == [mean |-> RInt(0)]

NotCalculated ==
    [pc |-> "idle", scores |-> <<>>, metrics |-> NoMetrics, cvs |-> <<>>,
     consistency |-> <<>>, bootstrapMeans |-> <<>>, ci |-> NoMetrics]

\* The runner has the scores of a pair's trials (runner.ts 321) or the normalized
\* scores of the pairs (runner.ts 435-447, 471)
CalcGiven(scores) ==
    /\ calc.pc = "idle"
    /\ calc' = [calc EXCEPT !.pc = "given", !.scores = scores]
    /\ UNCHANGED <<rlVars, dbVars, runnerVars, obsVars, clientVars, secondVars, loadVars,
                   cliVars, judgeVars>>

\* calculateConsistencyMetrics(scores) returns (runner.ts 322, 451, 482)
CalcMetrics ==
    /\ calc.pc = "given"
    /\ calc' = [calc EXCEPT !.pc = "metrics",
                            !.metrics = calculateConsistencyMetrics(calc.scores)]
    /\ UNCHANGED <<rlVars, dbVars, runnerVars, obsVars, clientVars, secondVars, loadVars,
                   cliVars, judgeVars>>

\* The least power of two a double holds: 2^-1074; a smaller result of Math.exp is 0
MinExponent == -1074

\* The coefficients of variation given to calculateConsistencyScore are k * ln(2) / 3,
\* for which e^(-3 * cv) is the power of two 2^-k: these are the k
CvGrid == {-1, 0, 1, 2, -MinExponent, -MinExponent + 1, -MinExponent + 2}

\* A double m * 2^e2 (m = 0: zero)
Pow2(m, e2) == [m |-> m, e2 |-> IF m = 0 THEN 0 ELSE e2]

\* a < b for doubles m * 2^e2 of one and the same m, or zero
PLess(a, b) == \/ a.m = 0 /\ b.m > 0
               \/ a.m > 0 /\ b.m > 0 /\ a.e2 < b.e2

\* Math.exp(-3 * cv) for cv = k * ln(2) / 3
MathExp(k) == IF -k < MinExponent THEN Pow2(0, 0) ELSE Pow2(1, -k)

\* The score without the clamp
calculateConsistencyScore_Unclamped(k) == Pow2(100 * MathExp(k).m, MathExp(k).e2)

\* calculateConsistencyScore(coefficientOfVariation), lines 123-128
calculateConsistencyScore(k) ==
    LET score == Pow2(100 * MathExp(k).m, MathExp(k).e2)
        \* Math.min(100, score)
        capped == IF PLess(Pow2(100, 0), score) THEN Pow2(100, 0) ELSE score
    IN \* Math.max(0, ...)
       IF PLess(capped, Pow2(0, 0)) THEN Pow2(0, 0) ELSE capped

\* calculateConsistencyScore is called for two coefficients of variation
CalcConsistency(k1, k2) ==
    /\ calc.pc = "idle"
    /\ calc' = [calc EXCEPT !.pc = "scored", !.cvs = <<k1, k2>>,
                            !.consistency = <<calculateConsistencyScore(k1),
                                              calculateConsistencyScore(k2)>>]
    /\ UNCHANGED <<rlVars, dbVars, runnerVars, obsVars, clientVars, secondVars, loadVars,
                   cliVars, judgeVars>>

\* calculateBootstrapCI's iterations (10000 by default)
Iterations == 3

\* The order of the means when they are not sorted
SortAscending_Unsorted(means) == means

\* bootstrapMeans.sort((a, b) => a - b)
RECURSIVE SortAscending(_)
SortAscending(means) ==
    IF means = <<>> THEN <<>>
    ELSE LET rest == SortAscending(Tail(means))
             below == {i \in 1..Len(rest) : ~RLeq(Head(means), rest[i])}
         IN SubSeq(rest, 1, Cardinality(below)) \o <<Head(means)>>
                \o SubSeq(rest, Cardinality(below) + 1, Len(rest))

\* resampleWithReplacement(array), lines 106-113: randomIndex of each position is
\* indices[i]
resampleWithReplacement(array, indices) == [i \in 1..Len(array) |-> array[indices[i]]]

\* calculateBootstrapCI(scores, 0.95, Iterations), lines 64-101, with the means of
\* the resamples drawn
calculateBootstrapCI(scores, bootstrapMeans) ==
    IF Len(scores) = 0 THEN [lower |-> RInt(0), upper |-> RInt(0), mean |-> RInt(0)]
    ELSE IF Len(scores) = 1
    THEN [lower |-> scores[1], upper |-> scores[1], mean |-> scores[1]]
    ELSE LET sorted == SortAscending(bootstrapMeans)
             \* Math.floor(length * (alpha / 2)), Math.floor(length * (1 - alpha / 2))
             lowerIndex == (Len(sorted) * 25) \div 1000
             upperIndex == (Len(sorted) * 975) \div 1000
         IN [lower |-> sorted[lowerIndex + 1], upper |-> sorted[upperIndex + 1],
             mean |-> MeanOf(scores)]

\* One iteration of the loop of lines 80-84
CalcResample(indices) ==
    /\ calc.pc = "metrics"
    /\ Len(calc.scores) >= 2
    /\ Len(calc.bootstrapMeans) < Iterations
    /\ indices \in [1..Len(calc.scores) -> 1..Len(calc.scores)]
    /\ calc' = [calc EXCEPT !.bootstrapMeans =
                    Append(@, MeanOf(resampleWithReplacement(calc.scores, indices)))]
    /\ UNCHANGED <<rlVars, dbVars, runnerVars, obsVars, clientVars, secondVars, loadVars,
                   cliVars, judgeVars>>

\* calculateBootstrapCI returns (runner.ts 450, 473)
CalcBootstrapCI ==
    /\ calc.pc = "metrics"
    /\ Len(calc.scores) <= 1 \/ Len(calc.bootstrapMeans) = Iterations
    /\ calc' = [calc EXCEPT !.pc = "ci",
                            !.ci = calculateBootstrapCI(calc.scores, calc.bootstrapMeans)]
    /\ UNCHANGED <<rlVars, dbVars, runnerVars, obsVars, clientVars, secondVars, loadVars,
                   cliVars, judgeVars>>

InitCalc == calc = NotCalculated

NextCalc ==
    \/ \E scores \in ScoreSeqs : CalcGiven(scores)
    \/ CalcMetrics
    \/ \E k1, k2 \in CvGrid : CalcConsistency(k1, k2)
    \/ \E indices \in [1..Len(calc.scores) -> 1..Len(calc.scores)] : CalcResample(indices)
    \/ CalcBootstrapCI

InitRL ==
    /\ clock = 0
    /\ requestHistory = [p \in Providers |-> 0]
    /\ calls = <<>>
    /\ invocations = <<>>

NextRL ==
    \/ \E p \in Providers : Throttle(p)
    \/ \E c \in 1..MaxCalls : Wake(c)
    \/ Tick

Init == InitRL /\ InitRunner /\ InitGen /\ InitSecond /\ InitLoad /\ InitCli /\ InitCalc /\ InitJudge

SpecRL == Init /\ [][NextRL]_vars

Spec == Init /\ [][Next]_vars

SpecGen == Init /\ [][NextGen]_vars

SpecConc == Init /\ [][NextConc]_vars

SpecLoad == Init /\ [][NextLoad]_vars

SpecCli == Init /\ [][NextCli]_vars

SpecCalc == Init /\ [][NextCalc]_vars

SpecJudge == Init /\ [][NextJudge]_vars

\* Timers fire, the rate limiter lets every call through, the code goes on; whether
\* the provider ever answers is up to the provider.
SpecGenLive ==
    /\ SpecGen
    /\ WF_vars(\E wait \in ThrottleWaits : ThrottleInvokes(wait))
    /\ WF_vars(TimeoutFires)
    /\ WF_vars(BackoffEnds)

----------------------------------------------------------------------------
(* Claims about the rate limiter, checked under SpecRL *)

\* The calls of provider p whose fn has been invoked.
InvokedFor(p) ==
    {c \in 1..Len(calls) : calls[c].pc = "invoked" /\ calls[c].provider = p}

\* The invocations of p in the 60-second window that ends at time t.
InWindow(p, t) ==
    {c \in InvokedFor(p) : calls[c].invokedAt > t - windowMs /\ calls[c].invokedAt <= t}

\* C1: for every provider key with a limit N > 0, no 60-second sliding window
\* contains more than N invocations of fn for that key.
C1_WindowBound ==
    \A p \in Providers :
        LimitRPM(p) > 0 =>
            \A c \in InvokedFor(p) :
                Cardinality(InWindow(p, calls[c].invokedAt)) <= LimitRPM(p)

\* Position of call c in the order of invocation (0 when not invoked yet).
InvocationIndex(c) ==
    IF \E i \in 1..Len(invocations) : invocations[i] = c
    THEN CHOOSE i \in 1..Len(invocations) : invocations[i] = c
    ELSE 0

\* C2: two callers of one provider key that both had to wait are served in the
\* order in which they entered throttle.
C2_FIFO ==
    \A a, b \in 1..Len(calls) :
        ( /\ a < b
          /\ calls[a].provider = calls[b].provider
          /\ calls[a].waited /\ calls[b].waited
          /\ calls[b].pc = "invoked" )
        => /\ calls[a].pc = "invoked"
           /\ InvocationIndex(a) < InvocationIndex(b)

\* How often timestamp t occurs in the history the map holds for p.
Occurrences(p, t) ==
    Cardinality({i \in 1..Len(HistoryOf(p)) : HistoryOf(p)[i] = t})

\* C3: no update of the history is lost: every invocation of the last 60 s is
\* recorded in the history that the next throttle call of the key reads.
C3_NoLostUpdate ==
    \A p \in Providers :
        LimitRPM(p) > 0 =>
            \A c \in InvokedFor(p) :
                clock - calls[c].invokedAt < windowMs =>
                    Occurrences(p, calls[c].invokedAt)
                        >= Cardinality({d \in InvokedFor(p) :
                                            calls[d].invokedAt = calls[c].invokedAt})


----------------------------------------------------------------------------
(* Resume, terminal states and failures of runEvaluation *)

\* The aggregate rows an uninterrupted run over the persisted pairs' trials writes
ReferencePillarScores ==
    LET order == PillarOrder(trueStats, {})
    IN [i \in 1..Len(order) |-> PillarScoreRow(trueStats, order[i])]

\* The last n rows of a table
LastRows(table, n) ==
    IF Len(table) < n THEN table ELSE SubSeq(table, Len(table) - n + 1, Len(table))

\* C4: Resume idempotence. When a run is completed, whether or not it was interrupted
\* and resumed on the way, the PillarScore and ModelScore rows (means, variances,
\* counts) that the completing call persisted are those of an uninterrupted run with
\* the same trial scores.
C4_ResumeIdempotence ==
    dbRun.status = "completed" =>
        /\ LastRows(dbPillarScores, Len(ReferencePillarScores)) = ReferencePillarScores
        /\ LastRows(dbModelScores, 1) = <<ModelScoreRow(trueStats)>>

\* The pairs a resume found persisted
Persisted(p) == PairKey(p) \in completedPairs

\* C5: Resume counting. In a resumed call no generation or judge call is made for a
\* pair that was persisted, and when the resumed run completes every other pair was
\* evaluated exactly once and the persisted responsesCompleted equals the number of
\* pairs M.
C5_ResumeCounting ==
    (/\ resumeEvalRunId = "run"
     /\ startStatus = "running"
     /\ pc \notin {"loadPartial", "loadStats"}) =>
        /\ \A p \in 1..NumPairs : Persisted(p) => evalCount[p] = 0
        /\ dbRun.status = "completed" =>
                /\ \A p \in 1..NumPairs : ~Persisted(p) => evalCount[p] = 1
                /\ dbRun.responsesCompleted = NumPairs

\* The run numbers persisted for the pair at position p
RunNumbers(p) ==
    {dbResponseRuns[j].runNumber : j \in
        {j \in 1..Len(dbResponseRuns) :
            /\ dbResponseRuns[j].responseId \in 1..Len(dbResponses)
            /\ dbResponses[dbResponseRuns[j].responseId].questionId = QuestionOf(p)
            /\ dbResponses[dbResponseRuns[j].responseId].questionVariant = VariantOf(p)}}

\* C6: The pair is the unit of resumability. Every pair that a resumed call has
\* skipped as completed has the complete persisted trial set 1..runsPerQuestion
\* (a pair interrupted part-way is never skipped: it is evaluated again).
C6_PairIsUnit ==
    (resumeEvalRunId = "run" /\ pos > 0) =>
        \A p \in 1..NumPairs :
            (p < pos /\ Persisted(p)) => RunNumbers(p) = 1..runsPerQuestion

\* A call that resumes a completed run or an id that does not exist
ResumeOfTerminal ==
    /\ resumeEvalRunId # "none"
    /\ pc # "idle"
    /\ \/ resumeEvalRunId = "missing"
       \/ startStatus \in {"completed", "none"}

StepErrors ==
    {"Generation failed", "Judge API call failed", "TypeError: toFixed of undefined",
     "TypeError: maxScore of undefined", "Storage error", "Callback error"}

\* C8: Failure leaves the run resumable. Whenever runEvaluation rejects because a
\* generation, judge, persistence or callback step threw (in a run that was not
\* already completed when the call began), the persisted run record has status
\* 'running' and its counter does not exceed the persisted pairs.
C8_FailureLeavesRunning ==
    (/\ pc = "rejected"
     /\ error \in StepErrors
     /\ dbRun # NoRun
     /\ startStatus # "completed") =>
        /\ dbRun.status = "running"
        /\ dbRun.responsesCompleted <= Len(dbResponses)

\* C9: Judge parse errors never abort the run. For every judge text parseJudgment
\* gives a numeric score, 0 when JSON parsing fails and no pattern matches, and the
\* run never rejects because of the score of a judgment.
C9_ParseNeverAborts ==
    /\ \A judgmentText \in JudgeTexts :
         \A p \in 1..NumPairs :
            LET r == parseJudgment(judgmentText, getRubricForVariant(QuestionOf(p), VariantOf(p)))
            IN /\ r.score >= 0
               /\ (/\ JsonStr(judgmentText) \in {"invalid", "null"}
                   /\ \A i \in 1..Len(judgmentText.patterns) :
                            judgmentText.patterns[i] = NoMatch) => r.score = 0
    /\ error # "TypeError: toFixed of undefined"

\* C10: A total grading failure degrades to score 0. When the judge's own
\* generation call fails, the trial goes on (with score 0) and the run does not
\* reject because of the judge.
C10_JudgeFailureDegrades ==
    /\ [](error # "Judge API call failed")
    /\ [][\A t \in 1..MaxRunsPerQuestion : JudgeFails(t) =>
            /\ pc' = "trials"
            /\ trials'[t].phase = "done"
            /\ trials'[t].score = 0]_vars


----------------------------------------------------------------------------
(* The provider clients' generate *)

\* The attempt ended with a text that generate returns
Succeeded(r) == r.outcome \in Answers /\ ResultOf(gen.client, r.outcome) # "throw"

\* The attempt ended in the catch block
Failed(r) == r.outcome \notin {"pending"} /\ ~Succeeded(r)

\* C11: Generation retry protocol, for both clients. A generate call makes at
\* most 3 attempts; an attempt is only made after all earlier ones failed, so the
\* text returned is that of the first successful attempt; attempt k+1 begins exactly
\* 2000 ms x k after attempt k failed; after the third failure the call fails at
\* once, without a further wait.
C11_RetryProtocol ==
    LET n == Len(gen.requests)
    IN /\ n <= 3
       /\ \A k \in 1..(n - 1) :
            /\ Failed(gen.requests[k])
            /\ gen.requests[k + 1].startedAt = gen.requests[k].endedAt + 2000 * k
       /\ gen.phase = "returned" =>
            /\ Succeeded(gen.requests[n])
            /\ gen.result = ResultOf(gen.client, gen.requests[n].outcome)
       /\ gen.phase = "backoff" =>
            /\ n <= 2
            /\ gen.wake = gen.requests[n].endedAt + 2000 * n
       /\ gen.phase = "failed" =>
            /\ n = 3
            /\ Failed(gen.requests[3])
            /\ gen.now = gen.requests[3].endedAt

\* C11 happens: three attempts failed, with both waits in between
C11_Witness ==
    /\ gen.phase = "failed"
    /\ Len(gen.requests) = 3
    /\ Len(gen.waits) = 2


\* C12: Per-request timeout. For both clients every generate call eventually
\* returns or fails, even when the provider never answers: each pending request is
\* ended when timeoutMs has passed.
C12_GenerateSettles ==
    [](gen.phase # "idle" => <>(gen.phase \in {"returned", "failed"}))


----------------------------------------------------------------------------
(* Order of the pairs and progress events *)

\* The pairs before position k whose trials this call launched
EvaluatedBefore(k) == {p \in 1..(k - 1) : evalCount[p] > 0}

\* A response row of the pair at position p is persisted
HasResponse(p) ==
    \E i \in 1..Len(dbResponses) :
        /\ dbResponses[i].questionId = QuestionOf(p)
        /\ dbResponses[i].questionVariant = VariantOf(p)

\* The greatest element of a non-empty set of positions
Last(S) == CHOOSE p \in S : \A q \in S : q <= p

----------------------------------------------------------------------------
(* The deterministic trial *)

\* The text of the generate call with temperature 0 and seed 0
DeterministicText == [temperature |-> "0.0", seed |-> 0]

\* The text of a generate call with temperature 0.7 and no seed
RandomText == [temperature |-> "0.7", seed |-> Null]

\* C14: Trial 1 is the deterministic record. Of the generate calls of a pair
\* exactly one, the first of the array, uses temperature 0 and seed 0 and the others
\* use temperature 0.7 and no seed; whatever the order in which the trials complete,
\* the trial row persisted with number 1 and the response row's representative text
\* and reasoning come from the temperature-0/seed-0 call, the other rows from the
\* other calls.
C14_TrialOneDeterministic ==
    /\ pc \in {"trials", "insertRuns"} =>
        /\ Len(trials) = runsPerQuestion
        /\ Cardinality({t \in DOMAIN trials :
                            trials[t].temperature = "0.0" /\ trials[t].seed = 0}) = 1
        /\ \A t \in DOMAIN trials :
                /\ <<trials[t].temperature, trials[t].seed>> \in
                        {<<"0.0", 0>>, <<"0.7", Null>>}
                /\ (trials[t].temperature = "0.0") <=> (t = 1)
    /\ \A j \in 1..Len(dbResponseRuns) :
        /\ dbResponseRuns[j].responseText =
                IF dbResponseRuns[j].runNumber = 1 THEN DeterministicText ELSE RandomText
        /\ dbResponseRuns[j].judgeReasoning.of = dbResponseRuns[j].responseText
    /\ \A i \in 1..Len(dbResponses) :
        /\ dbResponses[i].responseText = DeterministicText
        /\ dbResponses[i].judgeReasoning.of = DeterministicText

\* C14 happens: the temperature-0 trial completed last and was persisted as number 1
C14_Witness ==
    /\ pc = "insertRuns"
    /\ runsPerQuestion >= 2
    /\ trials[1].completedLast
    /\ Len(dbResponseRuns) >= 1
    /\ dbResponseRuns[Len(dbResponseRuns)].runNumber = 1
    /\ dbResponseRuns[Len(dbResponseRuns)].responseText = DeterministicText


\* The events of one status, in order
EventsWith(status) ==
    LET Is(e) == e.status = status IN SelectSeq(events, Is)

\* The pairs this call has evaluated up to and including the progress update
Reported ==
    {p \in 1..NumPairs :
        /\ evalCount[p] > 0
        /\ \/ p < pos
           \/ p = pos /\ pc \in {"callback", "rejected", "killed"}
                      /\ Len(events) > 0
                      /\ events[Len(events)].currentQuestion = QuestionOf(p)
                      /\ events[Len(events)].currentVariant = VariantOf(p)}

\* C15: Progress events. With a progress callback, the callback is called exactly
\* once per newly completed pair, with status 'running' and when that pair's update
\* of the run record is persisted; the completed counts of successive 'running' events
\* grow by exactly 1; and it is called exactly once at completion, last, with status
\* 'completed' and when the run is persisted as completed.
C15_ProgressEvents ==
    progressCallback =>
        LET running == EventsWith("running")
            completed == EventsWith("completed")
        IN /\ Len(running) = Cardinality(Reported)
           /\ \A i \in 1..Len(running) :
                /\ events[i] = running[i]
                /\ running[i].persistedStatus = "running"
                /\ running[i].persistedCompleted = running[i].responsesCompleted
                /\ i > 1 => running[i].responsesCompleted =
                                running[i - 1].responsesCompleted + 1
                /\ \A j \in 1..Len(running) :
                        (/\ running[i].currentQuestion = running[j].currentQuestion
                         /\ running[i].currentVariant = running[j].currentVariant) => i = j
           /\ Len(completed) <= 1
           /\ \A i \in 1..Len(completed) : completed[i].persistedStatus = "completed"
           /\ Len(completed) = 1 <=>
                (pc \in {"finalCallback", "resolved"}
                    \/ (pc \in {"rejected", "killed"} /\ pos > NumPairs
                            /\ dbRun.status = "completed" /\ startStatus # "completed"))
           /\ pc = "resolved" =>
                Len(running) = Cardinality({p \in 1..NumPairs : evalCount[p] > 0})

\* C15 happens: a run with a callback resolved after events for both pairs
C15_Witness ==
    /\ progressCallback
    /\ pc = "resolved"
    /\ Len(EventsWith("running")) = NumPairs
    /\ Len(EventsWith("completed")) = 1


----------------------------------------------------------------------------
(* The running average *)

\* The (mean, max) of the persisted pair i as the tables give it: for a pair
\* persisted before this call the stored mean, for a pair of this call the mean of
\* its persisted trial scores
PersistedPairStats(i) ==
    LET runs == RunsOfResponse(i)
    IN [mean_score |->
            IF <<dbResponses[i].questionId, dbResponses[i].questionVariant>> \in completedPairs
            THEN parseFloat(dbResponses[i].meanScore)
            ELSE MeanOf([k \in 1..Len(runs) |-> parseFloat(runs[k].score)]),
        max_score |-> parseFloat(runs[1].maxScore)]

\* 100 x (sum of pair means) / (sum of pair max scores) over the persisted pairs
RunningAverage ==
    LET ps == [i \in 1..Len(dbResponses) |-> PersistedPairStats(i)]
    IN RMul(RDiv(RSum([i \in 1..Len(ps) |-> ps[i].mean_score]),
                 RSum([i \in 1..Len(ps) |-> ps[i].max_score])), RInt(100))

\* The pairs (mean 85, max 100) and (mean 40, max 50)
ExamplePairs ==
    <<[mean_score |-> RInt(85), max_score |-> RInt(100), pillar_id |-> 1],
      [mean_score |-> RInt(40), max_score |-> RInt(50), pillar_id |-> 1]>>

\* This call has persisted a progress update and no response row since
JustUpdated ==
    \/ pc = "callback"
    \/ /\ pc \in {"trials", "pillars", "modelScore", "markCompleted", "finalCallback",
                  "resolved"}
       /\ EvaluatedBefore(pos) # {}
       /\ ~AllTrialsDone

----------------------------------------------------------------------------
(* Completion *)

\* The pillars that have at least one question of the list
PillarsOfList == {PillarId(q) : q \in 1..NumQuestions}

\* C17: Completion order. Whenever the persisted status is 'completed', a
\* response row exists for every (question, variant) pair of the list, a pillar
\* score row exists for every pillar that has a question, and a model score row
\* exists: the status is set only after all of these are persisted.
C17_CompletionOrder ==
    dbRun.status = "completed" =>
        /\ \A p \in 1..NumPairs : HasResponse(p)
        /\ \A pillar \in PillarsOfList :
                \E i \in 1..Len(dbPillarScores) : dbPillarScores[i].pillarId = pillar
        /\ Len(dbModelScores) >= 1

\* C17 happens: a resumed call that evaluated the remaining pair completed the run
C17_Witness ==
    /\ dbRun.status = "completed"
    /\ resumeEvalRunId = "run"
    /\ startStatus = "running"
    /\ completedPairs # {}
    /\ \E p \in 1..NumPairs : evalCount[p] = 1


\* C18: Run-level aggregates are computed once. After any sequence of start,
\* failure at any step and resume, the run has at most one model score row and at
\* most one pillar score row per pillar.
C18_AggregatesOnce ==
    /\ Len(dbModelScores) <= 1
    /\ \A pillar \in PillarsOfList :
            Cardinality({i \in 1..Len(dbPillarScores) :
                            dbPillarScores[i].pillarId = pillar}) <= 1


\* The first call of runEvaluation is pending
FirstActive == pc \notin Ended

\* The second call is past its loading and writes to the run
SecondWriting ==
    second.pc \in {"trials", "insertResponse", "insertRuns", "updateProgress",
                   "pillars", "modelScore", "markCompleted"}

\* C19: within one run the EvaluationRun record has one writer at a time: a
\* resume of a run that is still 'running' while the original invocation is
\* active never gets to write to the run, and no pair has two aggregated
\* responses.
C19_SingleWriter ==
    /\ ~(FirstActive /\ SecondWriting)
    /\ \A i, j \in 1..Len(dbResponses) :
            (/\ dbResponses[i].questionId = dbResponses[j].questionId
             /\ dbResponses[i].questionVariant = dbResponses[j].questionVariant) => i = j

\* The rubrics of the file read whose weights sum outside [0.99, 1.01]
Mismatched(q) ==
    {label \in {"explicit", "implicit"} :
        OutOfTolerance(TotalWeight(load.file[q].rubrics[label]))}

\* C20: a rubric whose criteria weights sum outside [0.99, 1.01] is a warning and
\* nothing more: validateRubricWeights returns false and warns without throwing,
\* load returns every question of a file the schema accepts, main goes on to
\* runEvaluation, and the run that resolves has evaluated every pair of every
\* question, mismatched or not.
C20_WarningOnly ==
    /\ (load.pc # "idle" /\ SchemaAccepts(load.file)) =>
            /\ load.pc # "threw"
            /\ load.questions = load.file
            /\ \A q \in DOMAIN load.file :
                    /\ load.returned[q] = (Mismatched(q) = {})
                    /\ \A label \in Mismatched(q) :
                            \E w \in DOMAIN load.warnings :
                                /\ load.warnings[w].label = label
                                /\ load.warnings[w].question = load.file[q].id
    /\ pc \notin {"idle"} => load.pc = "ready"
    /\ pc = "resolved" => \A p \in 1..NumPairs : HasResponse(p)

\* The example: explicit weights 0.5 + 0.6 = 1.1; the warning is logged, the
\* question is returned and the run that evaluated it is completed
C20_Witness ==
    /\ load.pc = "ready"
    /\ load.questions[1].rubrics.explicit = <<50, 60>>
    /\ load.returned[1] = FALSE
    /\ \E w \in DOMAIN load.warnings :
            load.warnings[w].label = "explicit" /\ load.warnings[w].sum = 110
    /\ pc = "resolved"
    /\ dbRun.status = "completed"
    /\ \A p \in 1..NumPairs : HasResponse(p)

\* The validations the invocation fails: model missing or unknown, trial count
\* missing or not a number of 1..10, credential of the selected provider missing
ValidationFailures ==
    LET runs == IF cli.args.runs = "none" THEN Undefined ELSE parseInt(cli.args.runs)
    IN {v \in {"model", "runs", "credential"} :
            \/ v = "model" /\ cli.args.model \notin {"gpt-4", "magisterium-1"}
            \/ v = "runs" /\ runs \notin 1..10
            \/ v = "credential" /\ cli.args.model = "gpt-4" /\ ~cli.env.openrouter
            \/ v = "credential" /\ cli.args.model = "magisterium-1" /\ ~cli.env.magisterium}

\* C21: main (called without --help) exits with 0 only when runEvaluation
\* succeeded, with 1 for every validation failure (model missing or unknown, trial
\* count missing or outside 1..10, resume without model, credential of the selected
\* provider missing) and for every runtime failure; the runner is constructed only
\* after the validations passed, so with a trial count of 1..10.
C21_CliOutcome ==
    (cli.pc # "idle" /\ ~cli.args.help) =>
        /\ cli.exitCode = 0 => cli.ran = "resolved"
        /\ (cli.pc = "exited" /\ ValidationFailures # {}) => cli.exitCode = 1
        /\ (cli.pc = "exited" /\ (cli.ran = "rejected" \/ load.pc = "threw")) => cli.exitCode = 1
        /\ cli.constructed => (ValidationFailures = {} /\ cli.runsPerQuestion \in 1..10)

\* The sum of integer scores, and of the squares of n * score - sum
RECURSIVE IntSum(_)
IntSum(xs) == IF xs = <<>> THEN 0 ELSE Head(xs) + IntSum(Tail(xs))

\* C22: calculateConsistencyMetrics against a reference in integers: mean * n is
\* the sum; variance * (n - 1) * n^2 is the sum of (n * score - sum)^2 and
\* variance is 0 for n <= 1; stdDev is the root of variance; CV is stdDev / mean
\* and 0 when mean = 0; min and max are the extremes; [80, 85, 90] gives mean 85,
\* variance 25, stdDev 5.
C22_DescriptiveStats ==
    calc.pc = "metrics" =>
        LET n == Len(calc.scores)
            xs == [i \in 1..n |-> calc.scores[i].n]
            sum == IntSum(xs)
            dev == IntSum([i \in 1..n |-> (n * xs[i] - sum) * (n * xs[i] - sum)])
            m == calc.metrics
        IN /\ n >= 1 => m.mean.n * n = sum * m.mean.d
           /\ n <= 1 => m.variance = RInt(0)
           /\ n >= 2 => m.variance.n * (n - 1) * n * n = dev * m.variance.d
           /\ m.stdDev.sq = m.variance
           /\ sum = 0 => m.coefficientOfVariation.sq = RInt(0)
           /\ (n >= 1 /\ sum # 0) =>
                    m.coefficientOfVariation.sq.n * m.variance.d * m.mean.n * m.mean.n
                        = m.coefficientOfVariation.sq.d * m.variance.n * m.mean.d * m.mean.d
           /\ n >= 1 => /\ \E i \in 1..n : m.min = calc.scores[i]
                        /\ \E i \in 1..n : m.max = calc.scores[i]
                        /\ \A i \in 1..n : RLeq(m.min, calc.scores[i])
                                           /\ RLeq(calc.scores[i], m.max)
           /\ calc.scores = <<RInt(80), RInt(85), RInt(90)>> =>
                    /\ m.mean = RInt(85)
                    /\ m.variance = RInt(25)
                    /\ m.stdDev = MathSqrt(RInt(25))

\* The example: the metrics of [80, 85, 90] are computed; CV is 5/85, the root of 1/289
C22_Witness ==
    /\ calc.pc = "metrics"
    /\ calc.scores = <<RInt(80), RInt(85), RInt(90)>>
    /\ calc.metrics.mean = RInt(85)
    /\ calc.metrics.stdDev.sq = RInt(25)
    /\ calc.metrics.coefficientOfVariation.sq = Rat(1, 289)

C24_BootstrapBounds ==
    (calc.pc = "ci" /\ Len(calc.scores) >= 1) =>
        LET n == Len(calc.scores)
            Within(x) == /\ \E i \in 1..n : RLeq(calc.scores[i], x)
                         /\ \E i \in 1..n : RLeq(x, calc.scores[i])
        IN /\ calc.ci.mean.n * n = IntSum([i \in 1..n |-> calc.scores[i].n]) * calc.ci.mean.d
           /\ n = 1 => /\ calc.ci.lower = calc.scores[1]
                       /\ calc.ci.upper = calc.scores[1]
                       /\ calc.ci.mean = calc.scores[1]
           /\ RLeq(calc.ci.lower, calc.ci.upper)
           /\ Within(calc.ci.lower) /\ Within(calc.ci.upper) /\ Within(calc.ci.mean)

\* Resamples of [80, 85, 90] with means 80, 85 and 90 among them: the interval is [80, 90]
C24_Witness ==
    /\ calc.pc = "ci"
    /\ calc.scores = <<RInt(80), RInt(85), RInt(90)>>
    /\ Len(calc.bootstrapMeans) = Iterations
    /\ calc.ci = [lower |-> RInt(80), upper |-> RInt(90), mean |-> RInt(85)]

\* C24: the bounds of bootstrapCI satisfy lower <= mean <= upper, with mean the
\* arithmetic mean of the input; for a single-element input lower = upper = mean =
\* that element; for every resampling outcome lower <= upper and both bounds lie
\* between the minimum and the maximum input score.
C24_BootstrapCI ==
    (calc.pc = "ci" /\ Len(calc.scores) >= 1) =>
        LET n == Len(calc.scores)
            Within(x) == /\ \E i \in 1..n : RLeq(calc.scores[i], x)
                         /\ \E i \in 1..n : RLeq(x, calc.scores[i])
        IN /\ calc.ci.mean.n * n = IntSum([i \in 1..n |-> calc.scores[i].n]) * calc.ci.mean.d
           /\ RLeq(calc.ci.lower, calc.ci.mean) /\ RLeq(calc.ci.mean, calc.ci.upper)
           /\ n = 1 => /\ calc.ci.lower = calc.scores[1]
                       /\ calc.ci.upper = calc.scores[1]
                       /\ calc.ci.mean = calc.scores[1]
           /\ RLeq(calc.ci.lower, calc.ci.upper)
           /\ Within(calc.ci.lower) /\ Within(calc.ci.upper)

\* C25: while the history of a provider key holds fewer than limit entries (the
\* call found fewer when it entered throttle), any two consecutive invocations of
\* fn for that key are at least 60 s / limit apart, for sequential callers and
\* for callers that overlap in throttle.
C25_EvenSpacing ==
    \A p \in Providers :
        LimitRPM(p) > 0 =>
            \A c, d \in InvokedFor(p) :
                ( /\ InvocationIndex(c) < InvocationIndex(d)
                  /\ Len(calls[d].recentRequests) - 1 < LimitRPM(p) )
                => calls[d].invokedAt - calls[c].invokedAt >= windowMs \div LimitRPM(p)

\* C26: when the judge text does not give a JSON judgment, the score is the number
\* captured by the first pattern that matches, in the patterns' order, and 0 when
\* none matches; in both paths max_score is the rubric's; in the fallback path the
\* criteria scores are empty and the reasoning is the parse-failure marker with
\* the first 300 characters of the raw text.
C26_FallbackExtraction ==
    judged.pc = "parsed" =>
        LET t == judged.text
            r == judged.result
            Matching == {i \in 1..4 : t.patterns[i] # NoMatch}
        IN /\ r.max_score = judged.rubric.max_score
           /\ JsonStr(t) \in {"invalid", "null"} =>
                /\ Matching = {} => r.score = 0
                /\ \A i \in Matching :
                        (\A j \in Matching : i <= j) => r.score = t.patterns[i]
                /\ r.criteria_scores = <<>>
                /\ r.reasoning = "[JSON parsing failed]"
                /\ r.excerpt <= 300 /\ r.excerpt <= t.length
                /\ r.excerpt = 300 \/ r.excerpt = t.length

\* A long text that is no JSON, whose third pattern captures 0 and whose fourth
\* captures 10: the score is 0 and the reasoning holds 300 characters of it
C26_Witness ==
    /\ judged.pc = "parsed"
    /\ JsonStr(judged.text) = "invalid"
    /\ judged.text.patterns = <<NoMatch, NoMatch, 0, 10>>
    /\ judged.text.length = 1200
    /\ judged.result.score = 0
    /\ judged.result.excerpt = 300
    /\ judged.result.max_score = 100

\* The errors a trial of a pair rejects with
TrialErrors == {"Generation failed", "Judge API call failed", "TypeError: toFixed of undefined"}

\* C27: a failing trial persists nothing for its pair: while a trial of the pair
\* is pending, and in the step in which one fails, no table and no progress field
\* of the run is written and no progress callback is called; the call that a
\* trial rejected leaves no response and no trial row of that pair and has
\* reported no event for it.
C27_FailingTrialPersistsNothing ==
    /\ [][(pc = "trials" /\ \E t \in DOMAIN trials : trials[t].phase # "done")
            => (dbVars' = dbVars /\ events' = events)]_vars
    /\ []((pc = "rejected" /\ error \in TrialErrors) =>
            /\ ~HasResponse(pos)
            /\ \A j \in 1..Len(dbResponseRuns) :
                    /\ dbResponses[dbResponseRuns[j].responseId].questionId = QuestionOf(pos)
                    => dbResponses[dbResponseRuns[j].responseId].questionVariant # VariantOf(pos)
            /\ \A i \in 1..Len(events) :
                    ~(/\ events[i].status = "running"
                      /\ events[i].currentQuestion = QuestionOf(pos)
                      /\ events[i].currentVariant = VariantOf(pos))
            /\ dbRun.responsesCompleted = completedVariants)

\* The judge call of a trial of the second pair fails after a sibling trial was
\* graded: the first pair is persisted, of the second pair nothing
C27_Witness ==
    /\ pc = "rejected"
    /\ error = "Judge API call failed"
    /\ pos = 2
    /\ Len(trials) >= 2
    /\ \E t \in DOMAIN trials : trials[t].phase = "done"
    /\ HasResponse(1)
    /\ ~HasResponse(2)
    /\ dbRun.responsesCompleted = 1

----------------------------------------------------------------------------
(* A resume during which every call succeeds: the first call of              *)
(* runEvaluation may fail or be interrupted anywhere, the calls that resume  *)
(* the run take only the steps of calls that return.                         *)

\* The errors of a provider, judge, storage or callback call that throws
CallErrors == TrialErrors \cup {"Storage error", "Callback error"}

\* The call of runEvaluation that created the run
FirstCall == resumeEvalRunId = "none"

NextResume ==
    \/ StartEvaluation
    \/ \E id \in {"run", "missing"} : ResumeEvaluation(id)
    \/ GetOrCreateModel
    \/ CreateRun
    \/ LoadPartialEvaluation
    \/ LoadExistingStats
    \/ \E t \in 1..MaxRunsPerQuestion : GenerateReturns(t)
    \/ \E t \in 1..MaxRunsPerQuestion : \E judgmentText \in JudgeTexts :
            JudgeReturns(t, judgmentText) /\ (FirstCall \/ error' \notin CallErrors)
    \/ InsertResponse
    \/ InsertResponseRun
    \/ UpdateProgress
    \/ ProgressCallbackReturns
    \/ InsertPillarScore
    \/ InsertModelScore
    \/ MarkCompleted
    \/ FinalCallbackReturns
    \/ FirstCall /\ \E t \in 1..MaxRunsPerQuestion : GenerateFails(t)
    \/ FirstCall /\ \E t \in 1..MaxRunsPerQuestion : JudgeFails(t)
    \/ FirstCall /\ StorageFails
    \/ FirstCall /\ CallbackFails
    \/ FirstCall /\ Interrupt

\* The steps of a resume in which a provider, judge or callback returns or the
\* run is loaded
ResumeCalls ==
    \/ LoadPartialEvaluation
    \/ LoadExistingStats
    \/ \E t \in 1..MaxRunsPerQuestion : GenerateReturns(t)
    \/ \E t \in 1..MaxRunsPerQuestion : \E judgmentText \in JudgeTexts :
            JudgeReturns(t, judgmentText) /\ error' \notin CallErrors
    \/ ProgressCallbackReturns
    \/ FinalCallbackReturns

\* The steps of a resume that write a row
ResumeWrites ==
    \/ InsertResponse
    \/ InsertResponseRun
    \/ UpdateProgress
    \/ InsertPillarScore
    \/ InsertModelScore
    \/ MarkCompleted

\* ENABLED ResumeWrites, as a state predicate
WritePending ==
    \/ AllTrialsDone
    \/ pc \in {"insertRuns", "updateProgress", "pillars", "modelScore", "markCompleted"}

\* The pending call of a resume is run to its end: weak fairness of its calls and
\* of its writes, the latter written out with WritePending for ENABLED
SpecResume ==
    /\ Init
    /\ [][NextResume]_vars
    /\ WF_vars(~FirstCall /\ ResumeCalls)
    /\ ([]<>~(~FirstCall /\ WritePending) \/ []<><<~FirstCall /\ ResumeWrites>>_vars)

\* A resume of a run all of whose persisted responses have a trial row completes
ResumeOfWholePairsCompletes ==
    (/\ pc = "loadPartial" /\ resumeEvalRunId = "run" /\ startStatus = "running"
     /\ \A i \in 1..Len(dbResponses) : RunsOfResponse(i) # <<>>)
        ~> (dbRun.status = "completed")

\* C28: resume always makes progress: a resume of an interrupted run, during
\* which every provider, judge and storage call succeeds, ends with the run's
\* status 'completed'.
C28_ResumeCompletes ==
    (pc = "loadPartial" /\ resumeEvalRunId = "run" /\ startStatus = "running")
        ~> (dbRun.status = "completed")

\* The state the resume of C28 stops in: the first call was interrupted between the
\* insert of the response of a pair and the insert of its first trial
C28_ResumeRejected ==
    /\ resumeEvalRunId = "run"
    /\ pc = "rejected"
    /\ error = "TypeError: maxScore of undefined"
    /\ dbRun.status = "running"

----------------------------------------------------------------------------
(* A new evaluation whose calls succeed, with judge outputs whose score is   *)
(* larger than the rubric's max_score                                        *)

\* Judge outputs with a score of 15 for a rubric of 10 points, as JSON and as text
OverRangeTexts ==
    { [sample |-> "{final_score: 15, ...}", length |-> 22,
       fence |-> "none", whole |-> "object", inner |-> "invalid", final_score |-> 15,
       patterns |-> <<NoMatch, NoMatch, NoMatch, NoMatch>>],
      [sample |-> "Final score: 15", length |-> 15,
       fence |-> "none", whole |-> "invalid", inner |-> "invalid", final_score |-> Undefined,
       patterns |-> <<15, NoMatch, NoMatch, NoMatch>>] }

NextScore ==
    \/ StartEvaluation
    \/ GetOrCreateModel
    \/ CreateRun
    \/ \E t \in 1..MaxRunsPerQuestion : GenerateReturns(t)
    \/ \E t \in 1..MaxRunsPerQuestion : \E judgmentText \in JudgeTexts \cup OverRangeTexts :
            JudgeReturns(t, judgmentText)
    \/ InsertResponse
    \/ InsertResponseRun
    \/ UpdateProgress
    \/ ProgressCallbackReturns
    \/ InsertPillarScore
    \/ InsertModelScore
    \/ MarkCompleted
    \/ FinalCallbackReturns

SpecScore == Init /\ [][NextScore]_vars

\* C29: score bounds: every persisted trial has 0 <= score <= maxScore with
\* maxScore its rubric's max score, for every judge output; every pair's
\* normalized score and the run's running average lie in [0, 100].
C29_ScoreBounds ==
    /\ \A j \in 1..Len(dbResponseRuns) :
            /\ 0 <= dbResponseRuns[j].score
            /\ dbResponseRuns[j].score <= dbResponseRuns[j].maxScore
            /\ dbResponseRuns[j].maxScore =
                    100 * getRubricForVariant(dbResponses[dbResponseRuns[j].responseId].questionId,
                                              dbResponses[dbResponseRuns[j].responseId].questionVariant).max_score
    /\ \A i \in 1..Len(allResponseStats) :
            /\ RLeq(RInt(0), NormalizedScore(allResponseStats[i]))
            /\ RLeq(NormalizedScore(allResponseStats[i]), RInt(100))
    /\ dbRun # NoRun /\ dbRun.averageScore # Null =>
            /\ 0 <= dbRun.averageScore
            /\ dbRun.averageScore <= 100 * 100

\* The questionCount columns of the persisted PillarScore rows
QuestionCounts == [i \in 1..Len(dbPillarScores) |-> dbPillarScores[i].questionCount]

\* responsesCompleted never decreases
C30_NonDecreasing ==
    [][(dbRun # NoRun /\ dbRun' # NoRun)
            => dbRun'.responsesCompleted >= dbRun.responsesCompleted]_vars

\* responsesCompleted is at most 2 x the number of questions
C30_AtMostPairs == dbRun # NoRun => dbRun.responsesCompleted <= NumPairs

\* The counts of a completed run that do agree: ModelScore.totalQuestions, the
\* number of persisted responses and 2 x the number of questions
C30_ResponsesCounted ==
    dbRun.status = "completed" =>
        /\ Len(dbResponses) = NumPairs
        /\ \A i \in 1..Len(dbModelScores) : dbModelScores[i].totalQuestions = NumPairs

\* C30: count consistency: responsesCompleted is non-decreasing and at most
\* 2 x the number of questions in every state, and when a run completes, fresh or
\* resumed, ModelScore.totalQuestions = the sum of PillarScore.questionCount =
\* the number of persisted responses = 2 x the number of questions = the
\* persisted responsesCompleted.
C30_CountConsistency ==
    /\ C30_NonDecreasing
    /\ []C30_AtMostPairs
    /\ [](dbRun.status = "completed" =>
            /\ dbModelScores # <<>>
            /\ \A i \in 1..Len(dbModelScores) :
                    /\ dbModelScores[i].totalQuestions = IntSum(QuestionCounts)
                    /\ dbModelScores[i].totalQuestions = Len(dbResponses)
                    /\ dbModelScores[i].totalQuestions = NumPairs
                    /\ dbModelScores[i].totalQuestions = dbRun.responsesCompleted)

=============================================================================
